---- MODULE Spec2Model ----
(***************************************************************************)
(* Model of the lost-and-found pet matching backend: the reports table,    *)
(* the matches table, and the HTTP handlers that write them                *)
(* (routers/reports.py, routers/matches.py, routers/embeddings_supabase.py,*)
(* hf-upload/routers/embeddings.py, hf-upload/routers/direct_matches.py,   *)
(* hf-upload/routers/reports_labels.py), the operations that read         *)
(* locations (routers/ai_search.py) and the start-up of hf-upload/main.py. *)
(*                                                                         *)
(* The database client of these handlers is synchronous, so a handler runs *)
(* from one await to the next without interleaving; the only awaits of the *)
(* write path are the photo download and the back-off sleep of             *)
(* generate_and_save_embedding, which touch no table.  Each handler is one *)
(* action; the outcomes of the awaited calls are inputs of the action.     *)
(* SpecRequest follows one create or update request from await to await.  *)
(* Except in SpecStartup the service is configured: _sb() and              *)
(* get_supabase() return a client.                                         *)
(*                                                                         *)
(* Similarities are fixed-point numbers in units of 10^-5, so that the     *)
(* rounding to 4 decimals of the code is a real conversion.                *)
(***************************************************************************)
EXTENDS Integers, Sequences, FiniteSets, TLC

VARIABLES
    reports,                      \* table reports: row id = index
    matches,                      \* table matches: row id = index
    GENERATE_EMBEDDINGS_LOCALLY,  \* reports.py configuration flag
    USE_HF_API,                   \* reports.py backend selection flag
    last,                         \* the last request and the status of its response
    improved,                     \* history: the last request raised a stored score
    run,                          \* the create or update request that is between two awaits
    environ,                      \* the process environment read at import time
    supabase_client,              \* main.py: the module-level client
    embeddings,                   \* hf-upload/services/embeddings.py: the module globals
    embeddings_hf_api,            \* services/embeddings_hf_api.py: the module globals
    tasks,                        \* the coroutines, threads and scripts that are running
    plan_cuidado,                 \* table plan_cuidado: row id = index
    checklist_cuidado             \* table checklist_cuidado

vars == <<reports, matches, GENERATE_EMBEDDINGS_LOCALLY, USE_HF_API, last, improved,
          run, environ, supabase_client, embeddings, embeddings_hf_api, tasks,
          plan_cuidado, checklist_cuidado>>

----------------------------------------------------------------------------
(* Bounds of the model *)

MaxReports == 2
MaxMatches == 2

----------------------------------------------------------------------------
(* Values *)

Types == {"lost", "found"}
ReportStatuses == {"active", "resolved", "cancelled"}
MatchStatuses == {"pending", "accepted", "rejected"}

\* Photo URLs are 1..3; the image behind URL p yields embedding vector p.
PhotoUrls == {1, 2, 3}
NoEmbedding == 0
NoLabels == 0

\* Unit-norm embedding vectors, written as integer vectors of squared norm
\* NormSq (the common factor 1/sqrt(NormSq) is applied in Dot).
NormSq == 65
Vec(p) == IF p = 1 THEN <<7, 4>> ELSE IF p = 2 THEN <<4, 7>> ELSE <<-4, 7>>

\* One unit of similarity_score is 10^-5.
Scale == 100000

ReportIds == 1..Len(reports)
MatchIds == 1..Len(matches)

----------------------------------------------------------------------------
(* Pure helpers *)

\* np.dot of two stored (normalised) vectors, as a fixed-point number
Dot(a, b) ==
    LET n == Vec(a)[1] * Vec(b)[1] + Vec(a)[2] * Vec(b)[2]
    IN  IF n >= 0 THEN (n * Scale) \div NormSq ELSE -(((-n) * Scale) \div NormSq)

\* np.dot(a, b) / (norm(a) * norm(b)); both norms are 1
Cosine(a, b) == Dot(a, b)

\* Python round(x, 4): to the nearest multiple of 10^-4, ties to even
Round4(s) ==
    LET q == s \div 10
        r == s % 10
    IN  IF r < 5 THEN q * 10
        ELSE IF r > 5 THEN (q + 1) * 10
        ELSE IF q % 2 = 0 THEN q * 10 ELSE (q + 1) * 10

\* dict.update of a row by a partial payload: only the row's columns change
ApplyUpdate(row, updates) ==
    [k \in DOMAIN row |-> IF k \in DOMAIN updates THEN updates[k] ELSE row[k]]

\* list.sort(key=..., reverse=True) of the candidate ids S by the score key[id]
RECURSIVE SortDesc(_, _)
SortDesc(S, key) ==
    IF S = {} THEN <<>>
    ELSE LET best == CHOOSE x \in S :
                       \A y \in S : key[x] > key[y] \/ (key[x] = key[y] /\ x <= y)
         IN  <<best>> \o SortDesc(S \ {best}, key)

\* seq[:n]
Take(seq, n) == SubSeq(seq, 1, IF Len(seq) < n THEN Len(seq) ELSE n)

Min(S) == CHOOSE x \in S : \A y \in S : x <= y

----------------------------------------------------------------------------
(* Responses *)

\* op: the handler; id: the row id of the request path (for create_report the
\* id of the created row, 0 when there is none); code: the HTTP status
Response(op, code, id) == [op |-> op, code |-> code, id |-> id]

----------------------------------------------------------------------------
(* routers/reports.py: automatic match discovery *)

threshold == 10000
max_matches == 10

\* the rows select(...).eq("lost_report_id", l).eq("found_report_id", f) returns
Existing(M, l, f) ==
    {i \in 1..Len(M) : M[i].lost_report_id = l /\ M[i].found_report_id = f}

match_data(l, f, similarity) ==
    [lost_report_id |-> l, found_report_id |-> f,
     similarity_score |-> Round4(similarity),
     matched_by |-> "ai_visual", status |-> "pending"]

\* variant of SaveDiscovered without the comparison with the stored score
SaveDiscoveredUnconditionally(M, report_type, report_id, candidate_id, similarity) ==
    LET l  == IF report_type = "lost" THEN report_id ELSE candidate_id
        f  == IF report_type = "lost" THEN candidate_id ELSE report_id
        ex == Existing(M, l, f)
    IN  IF ex # {}
        THEN [M EXCEPT ![Min(ex)] = match_data(l, f, similarity)]
        ELSE Append(M, match_data(l, f, similarity))

\* variant of SaveDiscovered that rewrites the score of a stored row only
SaveDiscoveredKeepingStatus(M, report_type, report_id, candidate_id, similarity) ==
    LET l  == IF report_type = "lost" THEN report_id ELSE candidate_id
        f  == IF report_type = "lost" THEN candidate_id ELSE report_id
        ex == Existing(M, l, f)
    IN  IF ex # {}
        THEN LET i == Min(ex)
             IN  IF similarity > M[i].similarity_score
                 THEN [M EXCEPT ![i].similarity_score = Round4(similarity)]
                 ELSE M
        ELSE Append(M, match_data(l, f, similarity))

\* body of the loop "for match in matches_found" of find_and_save_matches
SaveDiscovered(M, report_type, report_id, candidate_id, similarity) ==
    LET l  == IF report_type = "lost" THEN report_id ELSE candidate_id
        f  == IF report_type = "lost" THEN candidate_id ELSE report_id
        ex == Existing(M, l, f)
    IN  IF ex # {}
        THEN LET i == Min(ex)
             IN  IF similarity > M[i].similarity_score
                 THEN [M EXCEPT ![i] = match_data(l, f, similarity)]
                 ELSE M
        ELSE Append(M, match_data(l, f, similarity))

RECURSIVE SaveAllDiscovered(_, _, _, _, _)
SaveAllDiscovered(M, report_type, report_id, found, sim) ==
    IF found = <<>> THEN M
    ELSE SaveAllDiscovered(
             SaveDiscovered(M, report_type, report_id, Head(found), sim[Head(found)]),
             report_type, report_id, Tail(found), sim)

\* the candidates find_and_save_matches retains for report_id, best first
matches_found(R, report_id) ==
    LET report        == R[report_id]
        opposite_type == IF report.type = "lost" THEN "found" ELSE "lost"
        candidates    == {c \in 1..Len(R) : /\ R[c].type = opposite_type
                                             /\ R[c].status = "active"
                                             /\ R[c].embedding # NoEmbedding}
        sim           == [c \in candidates |-> Dot(report.embedding, R[c].embedding)]
        kept          == {c \in candidates : sim[c] >= threshold}
    IN  Take(SortDesc(kept, sim), max_matches)

find_and_save_matches(R, M, report_id) ==
    IF report_id \notin 1..Len(R) THEN M
    ELSE IF R[report_id].embedding = NoEmbedding THEN M
    ELSE LET report == R[report_id]
             found  == matches_found(R, report_id)
             sim    == [c \in 1..Len(R) |-> IF R[c].embedding = NoEmbedding THEN 0
                                            ELSE Dot(report.embedding, R[c].embedding)]
         IN  SaveAllDiscovered(M, report.type, report_id, found, sim)

----------------------------------------------------------------------------
(* routers/reports.py: embedding generation and persistence *)

max_retries == 3

\* What one attempt of generate_and_save_embedding meets:
\*   "timeout"  the download raises httpx.TimeoutException
\*   "error"    the download or the backend raises another exception
\*   "norow"    the embedding update returns no row
\*   "ok"       the embedding update returns the row
\*   "matcherror" the embedding update returns the row, and find_and_save_matches
\*              fails before it writes (its own "except Exception" logs and returns)
Outcomes == {"timeout", "error", "norow", "ok", "matcherror"}

\* With USE_HF_API the name image_bytes_to_vec is bound to the coroutine
\* function generate_embedding_from_bytes, which the call site does not
\* await: vec.tolist() raises AttributeError once the download succeeded.
Effective(use_hf_api, out) ==
    IF use_hf_api /\ out \in {"norow", "ok", "matcherror"} THEN "error" ELSE out

Pow2(n) == IF n = 0 THEN 1 ELSE IF n = 1 THEN 2 ELSE 4

\* the update of the embedding column by generate_and_save_embedding
WriteEmbedding(R, report_id, photo) ==
    [R EXCEPT ![report_id].embedding = photo]

\* the loop "for attempt in range(max_retries)", from iteration attempt on
RECURSIVE EmbeddingLoop(_, _, _, _, _, _, _, _)
EmbeddingLoop(R, M, use_hf_api, report_id, photo_url, outs, attempt, sleeps) ==
    IF attempt >= max_retries
    THEN [reports |-> R, matches |-> M, attempts |-> attempt,
          sleeps |-> sleeps, saved |-> FALSE]
    ELSE LET out == Effective(use_hf_api, outs[attempt + 1])
         IN  IF out \in {"ok", "matcherror"}
             THEN LET R1 == WriteEmbedding(R, report_id, photo_url)
                  IN  [reports |-> R1,
                       matches |-> IF out = "ok"
                                   THEN find_and_save_matches(R1, M, report_id)
                                   ELSE M,
                       attempts |-> attempt + 1, sleeps |-> sleeps,
                       saved |-> TRUE]
             ELSE IF out = "norow"
             THEN EmbeddingLoop(R, M, use_hf_api, report_id, photo_url, outs,
                                attempt + 1, sleeps)
             ELSE IF out = "timeout"
             THEN EmbeddingLoop(R, M, use_hf_api, report_id, photo_url, outs, attempt + 1,
                      IF attempt = max_retries - 1 THEN sleeps
                      ELSE Append(sleeps, Pow2(attempt)))
             ELSE EmbeddingLoop(R, M, use_hf_api, report_id, photo_url, outs, attempt + 1,
                      IF attempt < max_retries - 1 THEN Append(sleeps, Pow2(attempt))
                      ELSE sleeps)

generate_and_save_embedding(R, M, use_hf_api, report_id, photo_url, outs) ==
    EmbeddingLoop(R, M, use_hf_api, report_id, photo_url, outs, 0, <<>>)

\* the result of a request that does not call generate_and_save_embedding
NoGeneration(R, M) ==
    [reports |-> R, matches |-> M, attempts |-> 0,
     sleeps |-> <<>>, saved |-> FALSE]

\* variant of StatusAfterEmbedding in which an exhausted generation fails the request
StatusFailsWithEmbedding(g) == IF g.attempts = max_retries /\ ~g.saved THEN 500 ELSE 200

\* create_report and update_report wrap the call in "try ... except Exception:
\* print(...)" and then return the stored row: the status of the response does
\* not depend on what the embedding step g did
StatusAfterEmbedding(g) == 200

----------------------------------------------------------------------------
(* routers/reports.py: the handlers *)

required_fields == {"type", "reporter_id", "species", "description", "location"}

\* the row the insert stores: the payload's columns, the table's defaults
\* for the others
InsertedRow(report_data) ==
    LET get(k, default) == IF k \in DOMAIN report_data THEN report_data[k] ELSE default
    IN  [type        |-> get("type", "lost"),
         reporter_id |-> get("reporter_id", "u1"),
         species     |-> get("species", "dog"),
         description |-> get("description", "d"),
         location    |-> get("location", "POINT"),
         photos      |-> get("photos", <<>>),
         status      |-> get("status", "active"),
         embedding   |-> NoEmbedding,
         labels      |-> NoLabels,
         resolved_at |-> FALSE]

\* variant of MissingFields that does not require location
MissingFieldsButLocation(report_data) ==
    {f \in required_fields \ {"location"} : f \notin DOMAIN report_data}

\* the validation of create_report: the fields whose absence is an error
MissingFields(report_data) == {f \in required_fields : f \notin DOMAIN report_data}

\* "if GENERATE_EMBEDDINGS_LOCALLY and photos and ... len(photos) > 0" of create_report
CreateGenerates(gen_locally, photos) == gen_locally /\ Len(photos) > 0

\* POST /reports/ : insert_ok is whether the insert returns the row
create_report(report_data, insert_ok, outs) ==
    IF MissingFields(report_data) # {}
    THEN /\ last' = Response("create_report", 400, 0)
         /\ UNCHANGED <<reports, matches>>
    ELSE IF ~insert_ok
    THEN /\ last' = Response("create_report", 500, 0)
         /\ UNCHANGED <<reports, matches>>
    ELSE LET created_report == InsertedRow(report_data)
             R1        == Append(reports, created_report)
             report_id == Len(R1)
             photos    == created_report.photos
             g == IF CreateGenerates(GENERATE_EMBEDDINGS_LOCALLY, photos)
                  THEN generate_and_save_embedding(R1, matches, USE_HF_API,
                                                   report_id, photos[1], outs)
                  ELSE NoGeneration(R1, matches)
         IN  /\ reports' = g.reports
             /\ matches' = g.matches
             /\ last' = Response("create_report", StatusAfterEmbedding(g), report_id)

\* "if first_photo and (not has_embedding or 'photos' in updates)" of update_report
UpdateGenerates(gen_locally, photos, has_embedding, updates) ==
    /\ gen_locally
    /\ Len(photos) > 0
    /\ (~has_embedding \/ "photos" \in DOMAIN updates)

\* PUT /reports/{report_id}
update_report(report_id, updates, outs) ==
    IF report_id \notin ReportIds
    THEN /\ last' = Response("update_report", 404, report_id)
         /\ UNCHANGED <<reports, matches>>
    ELSE LET current_report == reports[report_id]
             updated_report == ApplyUpdate(current_report, updates)
             R1 == [reports EXCEPT ![report_id] = updated_report]
             photos == updated_report.photos
             has_embedding == current_report.embedding # NoEmbedding
             g == IF UpdateGenerates(GENERATE_EMBEDDINGS_LOCALLY, photos,
                                     has_embedding, updates)
                  THEN generate_and_save_embedding(R1, matches, USE_HF_API,
                                                   report_id, photos[1], outs)
                  ELSE NoGeneration(R1, matches)
         IN  /\ reports' = g.reports
             /\ matches' = g.matches
             /\ last' = Response("update_report", StatusAfterEmbedding(g), report_id)

\* DELETE /reports/{report_id}
\* variant of delete_report whose update is filtered on status = active
delete_report_active_only(report_id) ==
    IF report_id \notin ReportIds \/ reports[report_id].status # "active"
    THEN /\ last' = Response("delete_report", 404, report_id)
         /\ UNCHANGED <<reports, matches>>
    ELSE /\ reports' = [reports EXCEPT ![report_id].status = "cancelled"]
         /\ last' = Response("delete_report", 200, report_id)
         /\ UNCHANGED matches

delete_report(report_id) ==
    IF report_id \notin ReportIds
    THEN /\ last' = Response("delete_report", 404, report_id)
         /\ UNCHANGED <<reports, matches>>
    ELSE /\ reports' = [reports EXCEPT ![report_id].status = "cancelled"]
         /\ last' = Response("delete_report", 200, report_id)
         /\ UNCHANGED matches

\* POST /reports/{report_id}/resolve
resolve_report(report_id) ==
    IF report_id \notin ReportIds
    THEN /\ last' = Response("resolve_report", 404, report_id)
         /\ UNCHANGED <<reports, matches>>
    ELSE /\ reports' = [reports EXCEPT ![report_id].status = "resolved",
                                       ![report_id].resolved_at = TRUE]
         /\ last' = Response("resolve_report", 200, report_id)
         /\ UNCHANGED matches

\* variant of get_all_reports without the status filter
get_all_reports_unfiltered == ReportIds

\* GET /reports/ : the ids of the rows returned
get_all_reports == {r \in ReportIds : reports[r].status = "active"}

\* GET /reports/nearby : the ids of the rows returned; in_range holds the rows
\* whose location parses and lies within radius_km
get_nearby_reports(in_range) ==
    {r \in {x \in ReportIds : reports[x].status = "active"} : r \in in_range}

\* GET /reports/{report_id} : the status code
get_report_by_id(report_id) == IF report_id \in ReportIds THEN 200 ELSE 404

----------------------------------------------------------------------------
(* hf-upload/routers/reports_labels.py *)

\* POST /reports/{report_id}/labels ; labels_is_list is the payload check,
\* label_payload the stored payload
save_labels(report_id, labels_is_list, label_payload) ==
    IF ~labels_is_list
    THEN /\ last' = Response("save_labels", 400, report_id)
         /\ UNCHANGED <<reports, matches>>
    ELSE IF report_id \notin ReportIds
    THEN /\ last' = Response("save_labels", 404, report_id)
         /\ UNCHANGED <<reports, matches>>
    ELSE /\ reports' = [reports EXCEPT ![report_id].labels = label_payload]
         /\ last' = Response("save_labels", 200, report_id)
         /\ UNCHANGED matches

----------------------------------------------------------------------------
(* routers/embeddings_supabase.py *)

\* POST /embeddings/index/{report_id} ; the HTTPException(404) is raised inside
\* the try whose "except Exception" turns every exception into a 500
index_report_embedding(report_id, photo, decodes) ==
    IF ~decodes
    THEN /\ last' = Response("index_report_embedding", 400, report_id)
         /\ UNCHANGED <<reports, matches>>
    ELSE IF report_id \notin ReportIds
    THEN /\ last' = Response("index_report_embedding", 500, report_id)
         /\ UNCHANGED <<reports, matches>>
    ELSE /\ reports' = [reports EXCEPT ![report_id].embedding = photo]
         /\ last' = Response("index_report_embedding", 200, report_id)
         /\ UNCHANGED matches

\* POST /embeddings/generate ; file is what the upload holds: "empty", bytes
\* that are no image ("undecodable"), or an "image".  The HTTPException(400) is
\* raised inside the try whose "except Exception" answers 500
generate_embedding(file) ==
    /\ last' = [op |-> "generate_embedding",
                code |-> IF file = "image" THEN 200 ELSE 500,
                id |-> 0, body |-> file]
    /\ UNCHANGED <<reports, matches>>

\* the results of search_image: every report with an embedding, the one of
\* the highest similarity sim[r] first, cut to top_k
SearchResults(R, sim, top_k) ==
    LET with == {r \in 1..Len(R) : R[r].embedding # NoEmbedding}
    IN  Take(SortDesc(with, sim), top_k)

\* "if results and lost_id: insert(...)" of search_image
InsertTop1(M, results, lost_id, similarity) ==
    IF results # <<>>
    THEN Append(M, [lost_report_id |-> lost_id, found_report_id |-> results[1],
                    similarity_score |-> Round4(similarity),
                    matched_by |-> "ai_visual", status |-> "pending"])
    ELSE M

\* POST /embeddings/search_image with a lost_id
search_image(query, top_k, lost_id) ==
    LET sim     == [r \in ReportIds |->
                        IF reports[r].embedding = NoEmbedding THEN 0
                        ELSE Cosine(query, reports[r].embedding)]
        results == SearchResults(reports, sim, top_k)
        top1sim == IF results = <<>> THEN 0 ELSE sim[results[1]]
    IN  /\ matches' = InsertTop1(matches, results, lost_id, top1sim)
        /\ last' = Response("search_image", 200, lost_id)
        /\ UNCHANGED reports

----------------------------------------------------------------------------
(* hf-upload/routers/embeddings.py *)

\* "1 - (r.embedding <#> qvec)": <#> is the negative inner product
OneMinusNegDot(a, b) == Scale - (-Dot(a, b))

\* POST /embeddings/search_image of the direct-connection router, with a lost_id
search_image_sql(query, top_k, lost_id) ==
    LET sim     == [r \in ReportIds |->
                        IF reports[r].embedding = NoEmbedding THEN 0
                        ELSE OneMinusNegDot(query, reports[r].embedding)]
        results == SearchResults(reports, sim, top_k)
        top1sim == IF results = <<>> THEN 0 ELSE sim[results[1]]
    IN  /\ matches' = InsertTop1(matches, results, lost_id, top1sim)
        /\ last' = Response("search_image_sql", 200, lost_id)
        /\ UNCHANGED reports

----------------------------------------------------------------------------
(* hf-upload/routers/direct_matches.py *)

\* variant of DirectCandidates whose query does not ask for status = active
DirectCandidatesAnyStatus(R, report_id) ==
    LET base        == R[report_id]
        target_type == IF base.type = "lost" THEN "found" ELSE "lost"
    IN  {c \in 1..Len(R) : /\ R[c].type = target_type
                           /\ R[c].embedding # NoEmbedding
                           /\ (base.species # "" => R[c].species = base.species)}

\* the loaded candidates of find_matches_for_report, after the species filter
\* "if base_species"
DirectCandidates(R, report_id) ==
    LET base        == R[report_id]
        target_type == IF base.type = "lost" THEN "found" ELSE "lost"
    IN  {c \in 1..Len(R) : /\ R[c].type = target_type
                           /\ R[c].status = "active"
                           /\ R[c].embedding # NoEmbedding
                           /\ (base.species # "" => R[c].species = base.species)}

\* the rounded similarity_score of each entry of the list "matches"
DirectScores(R, report_id) ==
    [c \in 1..Len(R) |->
        IF R[c].embedding = NoEmbedding \/ R[report_id].embedding = NoEmbedding
        THEN 0
        ELSE Round4(Cosine(R[report_id].embedding, R[c].embedding))]

\* top_matches: the candidates at or above the threshold, best first, cut to top_k
top_matches(R, report_id, match_threshold, top_k) ==
    LET kept == {c \in DirectCandidates(R, report_id) :
                    /\ c # report_id
                    /\ Cosine(R[report_id].embedding, R[c].embedding) >= match_threshold}
    IN  Take(SortDesc(kept, DirectScores(R, report_id)), top_k)

\* body of the loop "for match in matches" of _save_matches_to_db
SaveDirect(M, report_type, report_id, match_report_id, similarity_score) ==
    LET l  == IF report_type = "lost" THEN report_id ELSE match_report_id
        f  == IF report_type = "lost" THEN match_report_id ELSE report_id
        ex == Existing(M, l, f)
    IN  IF ex # {}
        THEN LET i == Min(ex)
             IN  IF similarity_score > M[i].similarity_score
                 THEN [M EXCEPT ![i].similarity_score = similarity_score,
                                ![i].matched_by = "ai_visual",
                                ![i].status = "pending"]
                 ELSE M
        ELSE Append(M, [lost_report_id |-> l, found_report_id |-> f,
                        similarity_score |-> similarity_score,
                        matched_by |-> "ai_visual", status |-> "pending"])

RECURSIVE _save_matches_to_db(_, _, _, _, _)
_save_matches_to_db(M, report_id, report_type, top, score) ==
    IF top = <<>> THEN M
    ELSE _save_matches_to_db(
             SaveDirect(M, report_type, report_id, Head(top), score[Head(top)]),
             report_id, report_type, Tail(top), score)

\* POST /direct-matches/find/{report_id}
find_matches_for_report(report_id, match_threshold, top_k) ==
    IF report_id \notin ReportIds
    THEN /\ last' = Response("find_matches_for_report", 404, report_id)
         /\ UNCHANGED <<reports, matches>>
    ELSE IF reports[report_id].embedding = NoEmbedding
    THEN /\ last' = Response("find_matches_for_report", 400, report_id)
         /\ UNCHANGED <<reports, matches>>
    ELSE LET top == top_matches(reports, report_id, match_threshold, top_k)
         IN  /\ matches' = _save_matches_to_db(matches, report_id,
                               reports[report_id].type, top,
                               DirectScores(reports, report_id))
             /\ last' = Response("find_matches_for_report", 200, report_id)
             /\ UNCHANGED reports

----------------------------------------------------------------------------
(* routers/matches.py *)

\* variant of update_match_status whose update is not restricted to the row
update_match_status_every_row(match_id, status) ==
    IF status \notin {"accepted", "rejected"}
    THEN /\ last' = Response("update_match_status", 400, match_id)
         /\ UNCHANGED <<reports, matches>>
    ELSE IF match_id \notin MatchIds
    THEN /\ last' = Response("update_match_status", 404, match_id)
         /\ UNCHANGED <<reports, matches>>
    ELSE /\ matches' = [i \in MatchIds |-> [matches[i] EXCEPT !.status = status]]
         /\ last' = Response("update_match_status", 200, match_id)
         /\ UNCHANGED reports

\* variant of update_match_status that writes before it checks the value
update_match_status_write_first(match_id, status) ==
    IF match_id \notin MatchIds
    THEN /\ last' = Response("update_match_status", 404, match_id)
         /\ UNCHANGED <<reports, matches>>
    ELSE /\ matches' = [matches EXCEPT ![match_id].status = status]
         /\ last' = Response("update_match_status",
                        IF status \in {"accepted", "rejected"} THEN 200 ELSE 400, match_id)
         /\ UNCHANGED reports

\* PUT /matches/{match_id}/status
update_match_status(match_id, status) ==
    IF status \notin {"accepted", "rejected"}
    THEN /\ last' = Response("update_match_status", 400, match_id)
         /\ UNCHANGED <<reports, matches>>
    ELSE IF match_id \notin MatchIds
    THEN /\ last' = Response("update_match_status", 404, match_id)
         /\ UNCHANGED <<reports, matches>>
    ELSE /\ matches' = [matches EXCEPT ![match_id].status = status]
         /\ last' = Response("update_match_status", 200, match_id)
         /\ UNCHANGED reports

----------------------------------------------------------------------------
(* The requests the model issues *)

PhotoLimit == 5
SixPhotos == <<1, 1, 1, 1, 1, 1>>

FullPayload(t, sp, p) ==
    [type |-> t, reporter_id |-> "u1", species |-> sp, description |-> "d",
     location |-> "POINT", photos |-> p]

Restrict(f, D) == [k \in D |-> f[k]]

\* outcome sequences of the three attempts; after an attempt that saved the
\* embedding the loop has returned
OutcomeSeqs ==
    {o \in [1..max_retries -> Outcomes] :
        \A i \in 1..(max_retries - 1) : o[i] \in {"ok", "matcherror"} => o[i + 1] = o[i]}

NoOutcomes == [i \in 1..max_retries |-> "ok"]

\* the outcome sequences a request can meet: none when it does not generate
OutsWhen(generates, seqs) == IF generates THEN seqs ELSE {NoOutcomes}

Bounded(report_rows, match_rows) ==
    /\ Len(reports') <= report_rows
    /\ Len(matches') <= match_rows

\* whether a request raised the similarity_score of a row that existed before it
\* services/embeddings.py after import: no model, no transforms, two permits;
\* created counts the calls of timm.create_model (history)
Imported == [_model |-> 0, _transforms |-> 0, _inference_semaphore |-> 2, created |-> 0]

\* services/embeddings_hf_api.py after import: no client, no semaphore yet
ImportedHfApi == [_http_client |-> 0, _inference_semaphore |-> 0]

\* nothing runs beside the request at hand, and the care tables are empty
Quiet ==
    /\ embeddings = Imported
    /\ embeddings_hf_api = ImportedHfApi
    /\ tasks = <<>>
    /\ plan_cuidado = <<>>
    /\ checklist_cuidado = <<>>

\* what the handlers of the reports and matches tables never touch
Rest == UNCHANGED <<embeddings, embeddings_hf_api, tasks, plan_cuidado, checklist_cuidado>>

Improved(M, M2) ==
    \E i \in 1..Len(M) : M2[i].similarity_score > M[i].similarity_score

\* what every request leaves alone, and the history it records
Config ==
    /\ UNCHANGED <<GENERATE_EMBEDDINGS_LOCALLY, USE_HF_API, run, environ, supabase_client>>
    /\ Rest
    /\ improved' = Improved(matches, matches')

\* a create request carrying every required field
CreateValid(photo_lists, seqs) ==
    \E t \in Types, p \in photo_lists :
        \E outs \in OutsWhen(CreateGenerates(GENERATE_EMBEDDINGS_LOCALLY, p), seqs) :
            create_report(FullPayload(t, "dog", p), TRUE, outs) /\ Config

\* a create request without the optional field photos
CreateNoPhotos ==
    \E t \in Types :
        LET full == FullPayload(t, "dog", <<>>)
        IN  /\ create_report(Restrict(full, DOMAIN full \ {"photos"}), TRUE, NoOutcomes)
            /\ Config

\* a create request lacking one required field
CreateIncomplete ==
    \E absent \in required_fields, p \in {<<1>>, SixPhotos} :
        LET full == FullPayload("lost", "dog", p)
        IN  /\ create_report(Restrict(full, DOMAIN full \ {absent}), TRUE, NoOutcomes)
            /\ Config

\* a create request whose insert returns no row
CreateInsertFails ==
    create_report(FullPayload("lost", "dog", <<1>>), FALSE, NoOutcomes) /\ Config

UpdateReport(ids, payloads, seqs) ==
    \E report_id \in ids, updates \in payloads :
        \E outs \in OutsWhen(/\ report_id \in ReportIds
                             /\ UpdateGenerates(GENERATE_EMBEDDINGS_LOCALLY,
                                    ApplyUpdate(reports[report_id], updates).photos,
                                    reports[report_id].embedding # NoEmbedding,
                                    updates), seqs) :
            update_report(report_id, updates, outs) /\ Config

DeleteReport(ids) ==
    \E report_id \in ids : delete_report(report_id) /\ Config

ResolveReport(ids) ==
    \E report_id \in ids : resolve_report(report_id) /\ Config

SaveLabels(ids) ==
    \E report_id \in ids, labels_is_list \in BOOLEAN :
        save_labels(report_id, labels_is_list, 1) /\ Config

IndexReportEmbedding(ids, photos) ==
    \E report_id \in ids, photo \in photos, decodes \in BOOLEAN :
        index_report_embedding(report_id, photo, decodes) /\ Config

GenerateEmbedding ==
    \E file \in {"empty", "undecodable", "image"} : generate_embedding(file) /\ Config

SearchImage(queries) ==
    \E query \in queries, top_k \in {1, 10}, lost_id \in ReportIds :
        search_image(query, top_k, lost_id) /\ Config

SearchImageSql(queries) ==
    \E query \in queries, top_k \in {1, 10}, lost_id \in ReportIds :
        search_image_sql(query, top_k, lost_id) /\ Config

FindMatchesForReport(ids, thresholds) ==
    \E report_id \in ids, match_threshold \in thresholds, top_k \in {1, 10} :
        find_matches_for_report(report_id, match_threshold, top_k) /\ Config

UpdateMatchStatus(ids) ==
    \E match_id \in ids, status \in MatchStatuses :
        update_match_status(match_id, status) /\ Config

SinglePhotoLists == {<<p>> : p \in PhotoUrls}

----------------------------------------------------------------------------
(* hf-upload/main.py and utils/supabase_client.py: the client built at import *)

\* os.getenv of a credential: None, the empty string, or a non-empty string
Unset == "unset"
UrlValues == {Unset, "", "https://project"}
ServiceKeyValues == {Unset, "", "service-key"}
AnonKeyValues == {Unset, "", "anon-key"}

\* the truth value python gives to what os.getenv returned
Truthy(v) == v \notin {Unset, ""}

\* python's "a or b"
Or(a, b) == IF Truthy(a) THEN a ELSE b

\* the values of the name supabase_client
Unbound == [kind |-> "unbound"]   \* main.py has not been imported yet
None == [kind |-> "None"]
Client(url, key) == [kind |-> "client", url |-> url, key |-> key]
Exception(name) == [kind |-> name]

\* create_supabase_client() without arguments: what it returns, or the
\* exception it raises; constructs is whether supabase.create_client succeeds
create_supabase_client(env, constructs) ==
    LET supabase_url == Or(Unset, env.SUPABASE_URL)
        supabase_key == Or(Unset, env.SUPABASE_SERVICE_KEY)
    IN  IF ~Truthy(supabase_url) \/ ~Truthy(supabase_key)
        THEN Exception("ValueError")
        ELSE IF constructs THEN Client(supabase_url, supabase_key)
        ELSE Exception("RuntimeError")

get_supabase_client(env, constructs) == create_supabase_client(env, constructs)

Raised(v) == v.kind \in {"ValueError", "RuntimeError"}

\* the module-level statements of main.py that bind supabase_client
ModuleClient(env, constructs) ==
    LET SUPABASE_URL == env.SUPABASE_URL
        SUPABASE_KEY == Or(env.SUPABASE_SERVICE_KEY, env.SUPABASE_ANON_KEY)
    IN  IF ~Truthy(SUPABASE_URL) \/ ~Truthy(SUPABASE_KEY)
        THEN None
        ELSE LET c == get_supabase_client(env, constructs)
             IN  IF Raised(c) THEN None ELSE c

\* a response that carries a body
Answer(op, code, id, body) == [op |-> op, code |-> code, id |-> id, body |-> body]

\* importing main.py
Startup(constructs) ==
    /\ supabase_client = Unbound
    /\ supabase_client' = ModuleClient(environ, constructs)
    /\ last' = Answer("startup", 0, 0, constructs)
    /\ UNCHANGED <<reports, matches, GENERATE_EMBEDDINGS_LOCALLY, USE_HF_API,
                   improved, run, environ>>
    /\ Rest

Serving ==
    /\ supabase_client # Unbound
    /\ UNCHANGED <<reports, matches, GENERATE_EMBEDDINGS_LOCALLY, USE_HF_API,
                   improved, run, environ, supabase_client>>
    /\ Rest

\* GET /health
health ==
    /\ Serving
    /\ last' = Answer("health", 200, 0,
                      IF supabase_client # None THEN "conectado" ELSE "no configurado")

\* GET /version
version ==
    /\ Serving
    /\ last' = Answer("version", 200, 0,
                      IF supabase_client # None THEN "supabase" ELSE "no_supabase")

\* GET /supabase/status : query_ok is whether the test query succeeds
supabase_status(query_ok) ==
    /\ Serving
    /\ last' = Answer("supabase_status", 200, 0,
                      IF supabase_client = None THEN "no_configurado"
                      ELSE IF query_ok THEN "conectado" ELSE "error")

\* the environment in which the routers' _sb() returns a client
ConfiguredEnviron ==
    [SUPABASE_URL |-> "https://project", SUPABASE_SERVICE_KEY |-> "service-key",
     SUPABASE_ANON_KEY |-> "anon-key"]

\* no create or update request is between two awaits
Idle == [pc |-> "idle", op |-> "none", report_id |-> 0, photo_url |-> 0,
         attempt |-> 0, log |-> <<>>]

\* the service has started with its configuration and handles no request
Started ==
    /\ run = Idle
    /\ environ = ConfiguredEnviron
    /\ supabase_client = ModuleClient(ConfiguredEnviron, TRUE)
    /\ Quiet

----------------------------------------------------------------------------
(* routers/matches.py: GET /matches/pending *)

\* the ids of the rows of M that satisfy keep, in table order
Selected(M, keep) == SortDesc(keep, [i \in 1..Len(M) |-> -i])

\* the match_id of each entry of enriched_matches, in order; report_id = 0 and
\* user_id = "" stand for an absent query parameter
pending_matches(R, M, report_id, user_id, status) ==
    IF report_id # 0
    THEN LET matches_lost  == Selected(M, {i \in 1..Len(M) :
                                  /\ M[i].lost_report_id = report_id
                                  /\ M[i].status = status})
             found_matches == Selected(M, {i \in 1..Len(M) :
                                  /\ M[i].found_report_id = report_id
                                  /\ M[i].status = status})
         IN  matches_lost \o found_matches
    ELSE LET report_ids    == {r \in 1..Len(R) : R[r].reporter_id = user_id}
             matches_lost  == Selected(M, {i \in 1..Len(M) :
                                  /\ M[i].lost_report_id \in report_ids
                                  /\ M[i].status = status})
             found_matches == Selected(M, {i \in 1..Len(M) :
                                  /\ M[i].found_report_id \in report_ids
                                  /\ M[i].status = status})
         IN  IF report_ids = {} THEN <<>> ELSE matches_lost \o found_matches

get_pending_matches(report_id, user_id, status) ==
    /\ last' = IF report_id = 0 /\ user_id = ""
               THEN Answer("get_pending_matches", 400, report_id,
                           [user_id |-> user_id, status |-> status, matches |-> <<>>])
               ELSE Answer("get_pending_matches", 200, report_id,
                           [user_id |-> user_id, status |-> status,
                            matches |-> pending_matches(reports, matches, report_id,
                                                        user_id, status)])
    /\ UNCHANGED <<reports, matches>>

----------------------------------------------------------------------------
(* routers/reports.py: a create or update request, one step per await.  The
   steps of generate_and_save_embedding are those of EmbeddingLoop; run.log
   records what the request did, in order *)

\* the entries of run.log
AttemptEvent(attempt, out, eff) ==
    [ev |-> "attempt", n |-> attempt, out |-> out, eff |-> eff]
SleepEvent(attempt, seconds) ==
    [ev |-> "sleep", n |-> attempt, out |-> seconds, eff |-> seconds]
DiscoverEvent(report_id, out) ==
    [ev |-> "discover", n |-> report_id, out |-> out, eff |-> out]

\* "for attempt in range(max_retries)"
InRange(attempt) == attempt < max_retries

\* variant of NextIteration in which the failure of the last attempt is raised
\* and not caught
NextIterationRaises(attempt) == IF InRange(attempt + 1) THEN "attempt" ELSE "raised"

\* where the request goes when iteration attempt has ended without a return
NextIteration(attempt) == IF InRange(attempt + 1) THEN "attempt" ELSE "respond"

\* whether iteration attempt, having met eff, awaits asyncio.sleep(2 ** attempt):
\* the two except clauses do unless the attempt was the last, the else branch
\* of "if result.data" does not
SleepsAfter(attempt, eff) ==
    CASE eff = "timeout" -> ~(attempt = max_retries - 1)
      [] eff = "error"   -> attempt < max_retries - 1
      [] OTHER           -> FALSE

\* the request has passed validation and stored its row; the handler calls
\* generate_and_save_embedding(report_id, first_photo)
Generate(op, report_id, first_photo) ==
    [pc |-> "attempt", op |-> op, report_id |-> report_id, photo_url |-> first_photo,
     attempt |-> 0, log |-> <<>>]

Flags ==
    /\ UNCHANGED <<GENERATE_EMBEDDINGS_LOCALLY, USE_HF_API, environ, supabase_client>>
    /\ Rest

\* POST /reports/ up to the first await of generate_and_save_embedding
create_report_begin(report_data) ==
    LET created_report == InsertedRow(report_data)
        photos == created_report.photos
    IN  /\ run.pc = "idle"
        /\ MissingFields(report_data) = {}
        /\ CreateGenerates(GENERATE_EMBEDDINGS_LOCALLY, photos)
        /\ reports' = Append(reports, created_report)
        /\ run' = Generate("create_report", Len(reports) + 1, photos[1])
        /\ improved' = FALSE
        /\ UNCHANGED <<matches, last>>
        /\ Flags

\* PUT /reports/{report_id} up to the first await of generate_and_save_embedding
update_report_begin(report_id, updates) ==
    /\ run.pc = "idle"
    /\ report_id \in ReportIds
    /\ LET current_report == reports[report_id]
           updated_report == ApplyUpdate(current_report, updates)
       IN  /\ UpdateGenerates(GENERATE_EMBEDDINGS_LOCALLY, updated_report.photos,
                              current_report.embedding # NoEmbedding, updates)
           /\ reports' = [reports EXCEPT ![report_id] = updated_report]
           /\ run' = Generate("update_report", report_id, updated_report.photos[1])
    /\ improved' = FALSE
    /\ UNCHANGED <<matches, last>>
    /\ Flags

\* one iteration of the loop, from the download to the update of the embedding
\* column or to the except clause that caught the failure
attempt_step(out) ==
    LET eff == Effective(USE_HF_API, out)
        log == Append(run.log, AttemptEvent(run.attempt, out, eff))
    IN  /\ run.pc = "attempt"
        /\ IF eff \in {"ok", "matcherror"}
           THEN /\ reports' = WriteEmbedding(reports, run.report_id, run.photo_url)
                /\ run' = [run EXCEPT !.pc = "discover", !.log = log]
           ELSE IF SleepsAfter(run.attempt, eff)
           THEN /\ run' = [run EXCEPT !.pc = "sleep", !.log = log]
                /\ UNCHANGED reports
           ELSE /\ run' = [run EXCEPT !.pc = NextIteration(run.attempt),
                                      !.attempt = run.attempt + 1, !.log = log]
                /\ UNCHANGED reports
        /\ improved' = FALSE
        /\ UNCHANGED <<matches, last>>
        /\ Flags

\* "await asyncio.sleep(2 ** attempt)" returns
sleep_step ==
    /\ run.pc = "sleep"
    /\ run' = [run EXCEPT !.pc = NextIteration(run.attempt),
                          !.attempt = run.attempt + 1,
                          !.log = Append(run.log,
                                         SleepEvent(run.attempt, Pow2(run.attempt)))]
    /\ improved' = FALSE
    /\ UNCHANGED <<reports, matches, last>>
    /\ Flags

\* "await find_and_save_matches(report_id)" and the return that follows it
discover_step ==
    LET out == run.log[Len(run.log)].out
    IN  /\ run.pc = "discover"
        /\ matches' = IF out = "ok"
                      THEN find_and_save_matches(reports, matches, run.report_id)
                      ELSE matches
        /\ run' = [run EXCEPT !.pc = "respond",
                              !.log = Append(run.log, DiscoverEvent(run.report_id, out))]
        /\ improved' = Improved(matches, matches')
        /\ UNCHANGED <<reports, last>>
        /\ Flags

\* variant of ResponseReady in which the response does not wait for the steps
\* of generate_and_save_embedding
ResponseReadyAtOnce(pc) == pc # "idle"

\* the handler is at its return statement
ResponseReady(pc) == pc = "respond"

\* "return {"report": ..., "message": ...}"
respond_step ==
    /\ ResponseReady(run.pc)
    /\ last' = Response(run.op, 200, run.report_id)
    /\ run' = [run EXCEPT !.pc = "idle"]
    /\ improved' = FALSE
    /\ UNCHANGED <<reports, matches>>
    /\ Flags

----------------------------------------------------------------------------
(* Locations and distances: routers/reports.py, routers/matches.py,
   routers/ai_search.py.  Coordinates are in hundredths of a degree, distances
   in metres, radii in kilometres as in the requests *)

\* the two stored forms of a point: the GeoJSON object, and the text
\* "SRID=4326;POINT(lon lat)" as the pieces str.split meets
GeoJSON(lon, lat) ==
    [kind |-> "dict", type |-> "Point", coordinates |-> <<lon, lat>>]
Piece(chars) == [chars |-> chars, value |-> 0]
Number(value) == [chars |-> "number", value |-> value]
EWKT(lon, lat) ==
    [kind |-> "str",
     text |-> <<Piece("SRID=4326;"), Piece("POINT("), Number(lon), Piece(" "),
                Number(lat), Piece(")")>>]

\* None, where a pair (lat, lon) is expected
NoCoords == <<>>

\* the index of the first piece of text equal to piece, from index from on;
\* Len(text) + 1 when there is none
RECURSIVE Find(_, _, _)
Find(text, piece, from) ==
    IF from > Len(text) THEN Len(text) + 1
    ELSE IF text[from] = Piece(piece) THEN from
    ELSE Find(text, piece, from + 1)

\* reports.py _extract_coords: both forms
_extract_coords(location_data) ==
    IF location_data.kind = "str"
    THEN LET text == location_data.text
             open == Find(text, "POINT(", 1)
         IN  IF open > Len(text) THEN NoCoords
             ELSE LET close      == Find(text, ")", open + 1)
                      coords_str == SubSeq(text, open + 1, close - 1)
                      fields     == SelectSeq(coords_str, LAMBDA x : x # Piece(" "))
                  IN  IF /\ Len(fields) = 2
                         /\ \A i \in 1..2 : fields[i].chars = "number"
                      THEN <<fields[2].value, fields[1].value>>
                      ELSE NoCoords
    ELSE IF location_data.kind = "dict" /\ "coordinates" \in DOMAIN location_data
    THEN IF Len(location_data.coordinates) = 2
         THEN <<location_data.coordinates[2], location_data.coordinates[1]>>
         ELSE NoCoords
    ELSE NoCoords

\* matches.py _coords: "isinstance(loc, dict) and 'coordinates' in loc"
matches_coords(loc) ==
    IF loc.kind = "dict" /\ "coordinates" \in DOMAIN loc
    THEN <<loc.coordinates[2], loc.coordinates[1]>>
    ELSE NoCoords

\* ai_search.py _coords: the same function
ai_search_coords(loc) ==
    IF loc.kind = "dict" /\ "coordinates" \in DOMAIN loc
    THEN <<loc.coordinates[2], loc.coordinates[1]>>
    ELSE NoCoords

\* the points of the model, as pairs (lat, lon): on the equator and at 60
\* degrees north, 0.05 to 0.15 degrees of longitude apart
Points == {<<0, 0>>, <<0, 5>>, <<6000, 0>>, <<6000, 5>>, <<6000, 15>>}

\* haversine_km(lat1, lon1, lat2, lon2) with R = 6371.0 at the points of the
\* model, in metres: the values of the formula of the code, tabulated
haversine_km(lat1, lon1, lat2, lon2) ==
    LET dlon == IF lon1 > lon2 THEN lon1 - lon2 ELSE lon2 - lon1
    IN  IF lat1 = lat2 /\ lat1 = 0
        THEN CASE dlon = 0 -> 0 [] dlon = 5 -> 5560
               [] dlon = 10 -> 11119 [] dlon = 15 -> 16679
        ELSE IF lat1 = lat2
        THEN CASE dlon = 0 -> 0 [] dlon = 5 -> 2780
               [] dlon = 10 -> 5560 [] dlon = 15 -> 8340
        ELSE CASE dlon = 0 -> 6671696 [] dlon = 5 -> 6671697
               [] dlon = 10 -> 6671701 [] dlon = 15 -> 6671708

\* "d <= radius_km" for d in metres
Within(d, radius_km) == d <= radius_km * 1000

\* Python round(x, n) of x >= 0 counted in units of which unit make up one
\* step of 10^-n: to the nearest multiple of unit, ties to even
RoundTo(x, unit) ==
    LET q == x \div unit
        r == x % unit
    IN  IF 2 * r < unit THEN q * unit
        ELSE IF 2 * r > unit THEN (q + 1) * unit
        ELSE IF q % 2 = 0 THEN q * unit ELSE (q + 1) * unit

\* round(x, n) of any x
Round(x, unit) == IF x >= 0 THEN RoundTo(x, unit) ELSE -RoundTo(-x, unit)

\* list.sort(key=...) of the ids S by key[id], ascending
SortAsc(S, key) == SortDesc(S, [x \in DOMAIN key |-> -key[x]])

\* GET /reports/nearby : the rows returned, nearest first
nearby_reports(R, lat, lng, radius_km) ==
    LET coords   == [r \in 1..Len(R) |-> _extract_coords(R[r].location)]
        distance == [r \in 1..Len(R) |->
                        IF coords[r] = NoCoords THEN 0
                        ELSE haversine_km(lat, lng, coords[r][1], coords[r][2])]
        near     == {r \in 1..Len(R) : /\ R[r].status = "active"
                                       /\ coords[r] # NoCoords
                                       /\ Within(distance[r], radius_km)}
    IN  SortAsc(near, [r \in 1..Len(R) |-> Round(distance[r], 10)])

get_nearby_reports_at(lat, lng, radius_km) ==
    LET nearby == nearby_reports(reports, lat, lng, radius_km)
    IN  /\ last' = Answer("get_nearby_reports", 200, 0,
                          [lat |-> lat, lng |-> lng, radius_km |-> radius_km,
                           reports |-> nearby, count |-> Len(nearby)])
        /\ UNCHANGED <<reports, matches>>

\* matches.py label_set of a labels column
label_set(labels_json) == IF labels_json = NoLabels THEN {} ELSE {labels_json}

\* the bounding box of auto_match: lat_pad = lon_pad = radius_km / 111.0 degrees
InBox(base_lat, base_lon, lat, lon, radius_km) ==
    /\ (base_lat - lat) * 111 <= radius_km * 100
    /\ (lat - base_lat) * 111 <= radius_km * 100
    /\ (base_lon - lon) * 111 <= radius_km * 100
    /\ (lon - base_lon) * 111 <= radius_km * 100

\* the rows of the candidates query of auto_match
AutoCandidates(R, report_id) ==
    LET base        == R[report_id]
        target_type == IF base.type = "lost" THEN "found" ELSE "lost"
    IN  {c \in 1..Len(R) : /\ R[c].type = target_type
                           /\ R[c].status = "active"
                           /\ R[c].species = base.species}

\* "score = overlap * 10 - d * 0.2" rounded to 3 decimals, in units of 10^-4
AutoScore(R, report_id, c) ==
    LET base_pt == matches_coords(R[report_id].location)
        pt      == matches_coords(R[c].location)
        d       == haversine_km(base_pt[1], base_pt[2], pt[1], pt[2])
        overlap == Cardinality(label_set(R[report_id].labels) \cap label_set(R[c].labels))
    IN  Round(overlap * 100000 - 2 * d, 10)

\* the list "results" of auto_match after its sort
AutoResults(R, report_id, radius_km) ==
    LET base_pt == matches_coords(R[report_id].location)
        kept == {c \in AutoCandidates(R, report_id) :
                    LET pt == matches_coords(R[c].location)
                    IN  /\ pt # NoCoords
                        /\ InBox(base_pt[1], base_pt[2], pt[1], pt[2], radius_km)
                        /\ Within(haversine_km(base_pt[1], base_pt[2], pt[1], pt[2]),
                                  radius_km)}
    IN  SortDesc(kept, [c \in 1..Len(R) |->
                           IF c \in kept THEN AutoScore(R, report_id, c) ELSE 0])

\* GET /matches/auto-match ; single_raises is whether .single() raises for a
\* missing row, which the handler does not catch
auto_match(report_id, radius_km, top_k, single_raises) ==
    LET request == [radius_km |-> radius_km, k |-> top_k]
    IN  /\ UNCHANGED <<reports, matches>>
        /\ IF report_id \notin ReportIds
           THEN last' = Answer("auto_match", IF single_raises THEN 500 ELSE 404,
                               report_id, request)
           ELSE IF matches_coords(reports[report_id].location) = NoCoords
           THEN last' = Answer("auto_match", 400, report_id, request)
           ELSE LET results == AutoResults(reports, report_id, radius_km)
                IN  last' = Answer("auto_match", 200, report_id,
                                   [radius_km |-> radius_km, k |-> top_k,
                                    total_candidates |-> Len(results),
                                    top_k |-> Take(results, top_k)])

\* ai_search.py calculate_location_score, in units of 10^-3
calculate_location_score(distance, max_distance_km) ==
    IF distance <= 0 THEN 100000
    ELSE IF distance >= max_distance_km * 1000 THEN 0
    ELSE 100000 - (distance * 100) \div max_distance_km

\* ai_search.py calculate_time_score of a report created days_old days ago,
\* in units of 10^-3
calculate_time_score(days_old) ==
    IF days_old <= 1 THEN 100000
    ELSE IF days_old <= 7 THEN 80000
    ELSE IF days_old <= 30 THEN 60000
    ELSE 40000

\* the rows of the procedure search_similar_reports for the query image: the
\* reports whose embedding is at least match_threshold similar, best first
SimilarReports(R, query, match_threshold, match_count) ==
    LET sim  == [r \in 1..Len(R) |-> IF R[r].embedding = NoEmbedding THEN 0
                                     ELSE Cosine(query, R[r].embedding)]
        hits == {r \in 1..Len(R) : R[r].embedding # NoEmbedding /\ sim[r] >= match_threshold}
    IN  Take(SortDesc(hits, sim), match_count)

\* total_score of a candidate, in units of 10^-4: visual 40%, colours 30% (no
\* colours are extracted from the query image), location 20%, time 10%
TotalScore(visual_score, distance, radius_km, days_old) ==
    visual_score * 4 + 0 * 3
        + calculate_location_score(distance, radius_km) * 2
        + calculate_time_score(days_old) * 1

\* the candidates of ai_search: the rows of the vector search of the requested
\* type, or every active report of that type when there are none
AiCandidates(R, similar, search_type) ==
    LET wanted(r)  == search_type = "both" \/ R[r].type = search_type
        candidates == SelectSeq(similar, wanted)
    IN  IF candidates # <<>> THEN candidates
        ELSE SortAsc({r \in 1..Len(R) : R[r].status = "active" /\ wanted(r)},
                     [r \in 1..Len(R) |-> r])

\* the list "results" of ai_search after its sort; a row of the vector search
\* carries its similarity, a row of the plain listing does not
AiResults(R, query, similar, user_lat, user_lng, radius_km, search_type, days_old) ==
    LET candidates == AiCandidates(R, similar, search_type)
        ranked     == SelectSeq(similar, LAMBDA r : search_type = "both"
                                                    \/ R[r].type = search_type) # <<>>
        ids        == {candidates[i] : i \in 1..Len(candidates)}
        total      == [r \in 1..Len(R) |->
                          LET pt == ai_search_coords(R[r].location)
                          IN  IF pt = NoCoords THEN 0
                              ELSE TotalScore(
                                       IF ranked THEN Cosine(query, R[r].embedding)
                                       ELSE 50000,
                                       haversine_km(user_lat, user_lng, pt[1], pt[2]),
                                       radius_km, days_old)]
        kept == {r \in ids :
                    LET pt == ai_search_coords(R[r].location)
                    IN  /\ pt # NoCoords
                        /\ Within(haversine_km(user_lat, user_lng, pt[1], pt[2]),
                                  radius_km)
                        /\ total[r] >= 300000}
        order == [r \in 1..Len(R) |->
                     Len(candidates) + 1
                         - (CHOOSE i \in 1..(Len(candidates) + 1) :
                                IF r \in ids THEN i <= Len(candidates) /\ candidates[i] = r
                                ELSE i = Len(candidates) + 1)]
        key == [r \in 1..Len(R) |-> RoundTo(total[r], 1000) * (Len(R) + 2) + order[r]]
    IN  Take(SortDesc(kept, key), 20)

\* POST /ai-search/ ; file is what the upload holds, query the image in it,
\* rpc_ok whether the vector search succeeds, days_old the age of the reports
ai_search(file, query, user_lat, user_lng, radius_km, search_type, rpc_ok, days_old) ==
    LET request == [user_lat |-> user_lat, user_lng |-> user_lng,
                    radius_km |-> radius_km, search_type |-> search_type,
                    days_old |-> days_old]
        similar == IF rpc_ok THEN SimilarReports(reports, query, 60000, 50) ELSE <<>>
    IN  /\ UNCHANGED <<reports, matches>>
        /\ IF search_type \notin {"lost", "found", "both"} \/ file = "empty"
           THEN last' = Answer("ai_search", 400, 0, request)
           ELSE IF file # "image"
           THEN last' = Answer("ai_search", 500, 0, request)
           ELSE last' = Answer("ai_search", 200, 0,
                    [user_lat |-> user_lat, user_lng |-> user_lng,
                     radius_km |-> radius_km, search_type |-> search_type,
                     days_old |-> days_old, similar |-> similar,
                     total_candidates |->
                         Len(AiCandidates(reports, similar, search_type)),
                     matches |-> AiResults(reports, query, similar, user_lat, user_lng,
                                           radius_km, search_type, days_old)])

----------------------------------------------------------------------------
(* Spec: every writer of the matches table and the status endpoint, with local
   generation on the in-process backend and every embedding attempt succeeding *)

Init ==
    /\ reports = <<>>
    /\ matches = <<>>
    /\ GENERATE_EMBEDDINGS_LOCALLY = TRUE
    /\ USE_HF_API = FALSE
    /\ last = Response("none", 0, 0)
    /\ improved = FALSE
    /\ Started

WCreate == CreateValid({<<1>>, <<2>>}, {NoOutcomes}) /\ Bounded(MaxReports, MaxMatches)
WSearchImage == SearchImage({1, 2}) /\ Bounded(MaxReports, MaxMatches)
WSearchImageSql == SearchImageSql({1, 2}) /\ Bounded(MaxReports, MaxMatches)
WFind == FindMatchesForReport(1..MaxReports, {threshold, 90000})
             /\ Bounded(MaxReports, MaxMatches)
WUpdateMatchStatus == UpdateMatchStatus(1..MaxMatches)

Next ==
    \/ WCreate
    \/ WSearchImage
    \/ WSearchImageSql
    \/ WFind
    \/ WUpdateMatchStatus

Spec == Init /\ [][Next]_vars

----------------------------------------------------------------------------
(* SpecDiscovery: automatic match discovery and the direct-match finder over
   three reports whose photos are replaced *)

MaxDiscReports == 3
MaxDiscMatches == 2

DCreate == CreateValid(SinglePhotoLists, {NoOutcomes})
               /\ Bounded(MaxDiscReports, MaxDiscMatches)
DUpdate == UpdateReport(1..MaxDiscReports, {[photos |-> p] : p \in SinglePhotoLists},
                        {NoOutcomes})
               /\ Bounded(MaxDiscReports, MaxDiscMatches)
DFind == FindMatchesForReport(1..MaxDiscReports, {threshold})
               /\ Bounded(MaxDiscReports, MaxDiscMatches)

NextDiscovery ==
    \/ DCreate
    \/ DUpdate
    \/ DFind

SpecDiscovery == Init /\ [][NextDiscovery]_vars

----------------------------------------------------------------------------
(* SpecReports: the life cycle of reports under every configuration and every
   outcome of embedding generation *)

MaxLifeReports == 2

InitReports ==
    /\ reports = <<>>
    /\ matches = <<>>
    /\ GENERATE_EMBEDDINGS_LOCALLY \in BOOLEAN
    /\ USE_HF_API \in BOOLEAN
    /\ (GENERATE_EMBEDDINGS_LOCALLY \/ USE_HF_API)
    /\ last = Response("none", 0, 0)
    /\ improved = FALSE
    /\ Started

LifeIds == 1..MaxLifeReports
LBounded == Bounded(MaxLifeReports, MaxLifeReports)

\* the attempts fail in one way, and either the first retry or none saves
LifeOutcomeSeqs ==
    {o \in OutcomeSeqs :
        /\ \A i, j \in 1..max_retries :
               o[i] = o[j] \/ {o[i], o[j]} \cap {"ok", "matcherror"} # {}
        /\ o[2] = o[max_retries]}

LCreate == CreateValid({<<>>, <<1>>, SixPhotos}, LifeOutcomeSeqs) /\ LBounded
LCreateNoPhotos == CreateNoPhotos /\ LBounded
LCreateIncomplete == CreateIncomplete /\ LBounded
LCreateInsertFails == CreateInsertFails /\ LBounded
LUpdate == UpdateReport(LifeIds,
               {[photos |-> <<1>>]} \cup {[type |-> t] : t \in Types}
                   \cup {[status |-> "active"]},
               LifeOutcomeSeqs) /\ LBounded
LDelete == DeleteReport(LifeIds)
LResolve == ResolveReport(LifeIds)

NextReports ==
    \/ LCreate
    \/ LCreateNoPhotos
    \/ LCreateIncomplete
    \/ LCreateInsertFails
    \/ LUpdate
    \/ LDelete
    \/ LResolve

SpecReports == InitReports /\ [][NextReports]_vars

----------------------------------------------------------------------------
(* SpecFields: every operation that writes a report row, on one report *)

MaxFieldReports == 1

FieldIds == 1..(MaxFieldReports + 1)
FBounded == Bounded(MaxFieldReports, 0)

FCreate == CreateValid({<<>>, <<1>>, <<2>>}, LifeOutcomeSeqs) /\ FBounded
FUpdate == UpdateReport(FieldIds,
               {[photos |-> <<2>>], [description |-> "e"]}
                   \cup {[type |-> t] : t \in Types}
                   \cup {[status |-> s] : s \in ReportStatuses},
               LifeOutcomeSeqs) /\ FBounded
FDelete == DeleteReport(FieldIds)
FResolve == ResolveReport(FieldIds)
FSaveLabels == SaveLabels(FieldIds)
FIndex == IndexReportEmbedding(FieldIds, PhotoUrls)
FGenerate == GenerateEmbedding

NextFields ==
    \/ FCreate
    \/ FUpdate
    \/ FDelete
    \/ FResolve
    \/ FSaveLabels
    \/ FIndex
    \/ FGenerate

SpecFields == InitReports /\ [][NextFields]_vars

----------------------------------------------------------------------------
(* SpecRequest: create and update requests step by step, under every
   configuration and every outcome of each attempt; SpecRequestFair adds that
   an await which can return does return *)

MaxRunReports == 2

RunIds == 1..MaxRunReports
RBounded == Bounded(MaxRunReports, MaxRunReports)

\* a create request that calls generate_and_save_embedding
RCreateBegin ==
    \E t \in Types, p \in {<<1>>} :
        create_report_begin(FullPayload(t, "dog", p)) /\ Len(reports') <= MaxRunReports

\* a create request that does not: local generation is off or it has no photo
RCreate ==
    \E t \in Types, p \in {<<>>, <<1>>} :
        /\ run.pc = "idle"
        /\ ~CreateGenerates(GENERATE_EMBEDDINGS_LOCALLY, p)
        /\ create_report(FullPayload(t, "dog", p), TRUE, NoOutcomes)
        /\ Config
        /\ RBounded

RUpdateBegin ==
    \E report_id \in RunIds, p \in {2} :
        update_report_begin(report_id, [photos |-> <<p>>])

RAttempt == \E out \in Outcomes : attempt_step(out)
RSleep == sleep_step
RDiscover == discover_step /\ RBounded
RRespond == respond_step

RunStep ==
    \/ RAttempt
    \/ RSleep
    \/ RDiscover
    \/ RRespond

NextRequest ==
    \/ RCreateBegin
    \/ RCreate
    \/ RUpdateBegin
    \/ RunStep

SpecRequest == InitReports /\ [][NextRequest]_vars

\* the awaits of generate_and_save_embedding are a download with a 60 second
\* timeout, asyncio.sleep of at most 4 seconds and calls of the synchronous
\* database client: each returns or raises, and the event loop resumes the
\* handler
SpecRequestFair == SpecRequest /\ WF_vars(RunStep)

\* the attempts, the waits and the discoveries of the request in run.log
Attempts(log) == SelectSeq(log, LAMBDA e : e.ev = "attempt")
Sleeps(log) == SelectSeq(log, LAMBDA e : e.ev = "sleep")
Discoveries(log) == SelectSeq(log, LAMBDA e : e.ev = "discover")

\* the outcomes the attempts of the request met, completed to max_retries
OutsOf(log) ==
    [i \in 1..max_retries |->
        IF i <= Len(Attempts(log)) THEN Attempts(log)[i].out ELSE "ok"]

\* a request at its return statement has done what EmbeddingLoop computes
StepsFollowTheLoop ==
    run.pc = "respond" =>
        LET g == generate_and_save_embedding(reports, matches, USE_HF_API,
                     run.report_id, run.photo_url, OutsOf(run.log))
        IN  /\ g.attempts = Len(Attempts(run.log))
            /\ g.sleeps = [i \in 1..Len(Sleeps(run.log)) |-> Sleeps(run.log)[i].out]
            /\ g.saved = (Len(Discoveries(run.log)) = 1)
            /\ g.reports = reports
            /\ g.matches = matches

----------------------------------------------------------------------------
(* SpecDirect: the direct-match finder over reports of both types, with and
   without a species, active and deleted, under the default configuration:
   embeddings are stored by the index endpoint *)

MaxDirectReports == 3
MaxDirectMatches == 2

InitDirect ==
    /\ reports = <<>>
    /\ matches = <<>>
    /\ GENERATE_EMBEDDINGS_LOCALLY = FALSE
    /\ USE_HF_API = TRUE
    /\ last = Response("none", 0, 0)
    /\ improved = FALSE
    /\ Started

DirectIds == 1..MaxDirectReports
DirectThresholds == {threshold, 90000}
DirectTopK == {1, 10}

XCreate ==
    \E t \in Types, sp \in {"dog", ""} :
        /\ create_report(FullPayload(t, sp, <<1>>), TRUE, NoOutcomes)
        /\ Config
        /\ Bounded(MaxDirectReports, MaxDirectMatches)
XIndex == IndexReportEmbedding(ReportIds, {1, 2})
XDelete == DeleteReport({MaxDirectReports})
XFind ==
    /\ FindMatchesForReport(DirectIds, DirectThresholds)
    /\ Bounded(MaxDirectReports, MaxDirectMatches)

NextDirect ==
    \/ XCreate
    \/ XIndex
    \/ XDelete
    \/ XFind

SpecDirect == InitDirect /\ [][NextDirect]_vars

----------------------------------------------------------------------------
(* hf-upload/services/embeddings.py and startup_event of hf-upload/main.py:
   the model singleton and the two entry points.  tasks[1] is startup_event,
   the others are callers.  A caller of image_bytes_to_vec_async runs
   _generate_embedding on a worker thread (asyncio.to_thread); a caller of
   image_bytes_to_vec runs it on the thread of the event loop, which then
   serves nothing else until it returns.  _load_model is followed statement by
   statement: the test of _model, timm.create_model, and the probe that sets
   _actual_dim and _transforms *)

MaxCallers == 3

NotCalled == [entry |-> "none", pc |-> "idle"]
StartupTask == [entry |-> "startup", pc |-> "idle"]
Callers == 2..(MaxCallers + 1)

\* the positions inside _generate_embedding
Generating == {"test", "create", "probe", "infer", "infer_none"}

\* the callers whose inference is in flight
InFlight == {i \in Callers : i \in DOMAIN tasks /\ tasks[i].pc \in Generating}

\* the thread of the event loop is inside a synchronous call
LoopBusy == \E i \in InFlight : tasks[i].entry = "sync"

\* line 82: timm.create_model returned and is bound to _model
Created(e) == [e EXCEPT !._model = e.created + 1, !.created = e.created + 1]

\* lines 85-109: the probe ran, _actual_dim and _transforms are bound
Probed(e) == [e EXCEPT !._transforms = 1]

\* one whole call of _load_model() with nothing running beside it
_load_model(e, create_ok, probe_ok) ==
    IF e._model # 0 THEN e
    ELSE IF ~create_ok THEN e
    ELSE IF ~probe_ok THEN Created(e)
    ELSE Probed(Created(e))

OnlyInference ==
    UNCHANGED <<reports, matches, GENERATE_EMBEDDINGS_LOCALLY, USE_HF_API, last,
                improved, run, environ, supabase_client, embeddings_hf_api,
                plan_cuidado, checklist_cuidado>>

\* main.py startup_event: the pre-load, whose exception is printed and dropped
startup_event(generate_locally, create_ok, probe_ok) ==
    /\ tasks[1].pc = "idle"
    /\ embeddings' = IF generate_locally
                     THEN _load_model(embeddings, create_ok, probe_ok)
                     ELSE embeddings
    /\ tasks' = [tasks EXCEPT ![1].pc = "returned"]
    /\ OnlyInference

\* the server takes requests, and the loop is free to start caller i
CanStart(i) ==
    /\ tasks[1].pc = "returned"
    /\ tasks[i] = NotCalled
    /\ ~LoopBusy

\* image_bytes_to_vec_async up to its first suspension: it takes a permit and
\* hands _generate_embedding to a thread, or waits for a permit
image_bytes_to_vec_async(i) ==
    /\ CanStart(i)
    /\ IF embeddings._inference_semaphore > 0
       THEN /\ embeddings' = [embeddings EXCEPT !._inference_semaphore = @ - 1]
            /\ tasks' = [tasks EXCEPT ![i] = [entry |-> "async", pc |-> "test"]]
       ELSE /\ tasks' = [tasks EXCEPT ![i] = [entry |-> "async", pc |-> "waiting"]]
            /\ UNCHANGED embeddings
    /\ OnlyInference

\* a waiting caller is woken with a permit
acquire(i) ==
    /\ tasks[i].pc = "waiting"
    /\ ~LoopBusy
    /\ embeddings._inference_semaphore > 0
    /\ embeddings' = [embeddings EXCEPT !._inference_semaphore = @ - 1]
    /\ tasks' = [tasks EXCEPT ![i].pc = "test"]
    /\ OnlyInference

\* image_bytes_to_vec: _generate_embedding at once, on the calling thread
image_bytes_to_vec(i) ==
    /\ CanStart(i)
    /\ tasks' = [tasks EXCEPT ![i] = [entry |-> "sync", pc |-> "test"]]
    /\ UNCHANGED embeddings
    /\ OnlyInference

\* where a call is once _generate_embedding has returned or raised: the
\* synchronous caller has its answer, the asynchronous one is resumed by the loop
After(entry, outcome) == IF entry = "sync" THEN outcome ELSE "thread_" \o outcome

\* _load_model line 76, if _model is None, and line 113 when it is not: the
\* globals as they are, transforms possibly still None
load_test(i) ==
    /\ tasks[i].pc = "test"
    /\ tasks' = [tasks EXCEPT ![i].pc =
                    IF embeddings._model = 0 THEN "create"
                    ELSE IF embeddings._transforms # 0 THEN "infer"
                    ELSE "infer_none"]
    /\ UNCHANGED embeddings
    /\ OnlyInference

\* _load_model line 82
load_create(i, create_ok) ==
    /\ tasks[i].pc = "create"
    /\ IF create_ok
       THEN /\ embeddings' = Created(embeddings)
            /\ tasks' = [tasks EXCEPT ![i].pc = "probe"]
       ELSE /\ tasks' = [tasks EXCEPT ![i].pc = After(tasks[i].entry, "raised")]
            /\ UNCHANGED embeddings
    /\ OnlyInference

\* _load_model lines 85-113
load_probe(i, probe_ok) ==
    /\ tasks[i].pc = "probe"
    /\ IF probe_ok
       THEN /\ embeddings' = Probed(embeddings)
            /\ tasks' = [tasks EXCEPT ![i].pc = "infer"]
       ELSE /\ tasks' = [tasks EXCEPT ![i].pc = After(tasks[i].entry, "raised")]
            /\ UNCHANGED embeddings
    /\ OnlyInference

\* _generate_embedding lines 166-206: transforms(img) raises when it is None
infer(i, image_ok) ==
    /\ tasks[i].pc \in {"infer", "infer_none"}
    /\ tasks' = [tasks EXCEPT ![i].pc =
                    After(tasks[i].entry,
                          IF tasks[i].pc = "infer" /\ image_ok
                          THEN "returned" ELSE "raised")]
    /\ UNCHANGED embeddings
    /\ OnlyInference

\* the loop resumes the coroutine whose thread has ended: the permit goes back
resume(i) ==
    /\ tasks[i].pc \in {"thread_returned", "thread_raised"}
    /\ ~LoopBusy
    /\ embeddings' = [embeddings EXCEPT !._inference_semaphore = @ + 1]
    /\ tasks' = [tasks EXCEPT ![i].pc = IF @ = "thread_returned" THEN "returned"
                                        ELSE "raised"]
    /\ OnlyInference

----------------------------------------------------------------------------
(* services/embeddings_hf_api.py: generate_embedding_from_bytes, one step per
   await.  tasks[i].log records the requests sent and the waits, in order;
   tasks[i].result is what the call returned *)

MaxHfCalls == 4

HfNotCalled == [entry |-> "hf_api", pc |-> "idle", log |-> <<>>, result |-> "pending"]
PostEvent(status) == [kind |-> "post", value |-> status]
WaitEvent(seconds) == [kind |-> "sleep", value |-> seconds]

\* the answers to client.post: a status code, or 0 when the call raises
\* (timeout, connection error)
PostOutcomes == {200, 503, 500, 0}

\* _get_semaphore() and _get_http_client(): built on first use
WithSemaphore(m) == IF m._inference_semaphore = 0
                    THEN [m EXCEPT !._inference_semaphore = 4] ELSE m
WithClient(m) == [m EXCEPT !._http_client = 1]

\* _inference_semaphore holds permits + 1, 0 standing for None
Permits(m) == WithSemaphore(m)._inference_semaphore - 1
Taken(m) == [WithSemaphore(m) EXCEPT !._inference_semaphore = @ - 1]
Released(m) == [m EXCEPT !._inference_semaphore = @ + 1]

OnlyHfApi ==
    UNCHANGED <<reports, matches, GENERATE_EMBEDDINGS_LOCALLY, USE_HF_API, last,
                improved, run, environ, supabase_client, embeddings,
                plan_cuidado, checklist_cuidado>>

\* lines 75-101: the image is verified and re-encoded, then the semaphore is
\* entered; an image that does not verify returns None before any request
generate_embedding_from_bytes(i, image_valid) ==
    /\ tasks[i].pc = "idle"
    /\ IF ~image_valid
       THEN /\ tasks' = [tasks EXCEPT ![i].pc = "returned", ![i].result = "None"]
            /\ UNCHANGED embeddings_hf_api
       ELSE IF Permits(embeddings_hf_api) > 0
       THEN /\ embeddings_hf_api' = WithClient(Taken(embeddings_hf_api))
            /\ tasks' = [tasks EXCEPT ![i].pc = "post"]
       ELSE /\ embeddings_hf_api' = WithSemaphore(embeddings_hf_api)
            /\ tasks' = [tasks EXCEPT ![i].pc = "waiting"]
    /\ OnlyHfApi

\* a waiting call is woken with a permit
hf_acquire(i) ==
    /\ tasks[i].pc = "waiting"
    /\ Permits(embeddings_hf_api) > 0
    /\ embeddings_hf_api' = WithClient(Taken(embeddings_hf_api))
    /\ tasks' = [tasks EXCEPT ![i].pc = "post"]
    /\ OnlyHfApi

\* how many requests the call has sent
Posts(log) == Cardinality({k \in 1..Len(log) : log[k].kind = "post"})

\* the variant that waits and sends again after every 503
AfterPostRetrying(sent, status) ==
    IF status = 503 THEN "sleep"
    ELSE IF status # 200 THEN "None"
    ELSE "embedding"

\* lines 113-129 after the answer to request number sent: the warming-up
\* status is retried after the first request only; any status but 200 is None,
\* and so is a raised error (line 146)
AfterPost(sent, status) ==
    IF status = 503 /\ sent = 1 THEN "sleep"
    ELSE IF status # 200 THEN "None"
    ELSE "embedding"

\* lines 105-110 and 119-124: client.post and what follows its answer
hf_post(i, status) ==
    /\ tasks[i].pc = "post"
    /\ LET log == Append(tasks[i].log, PostEvent(status))
           next == AfterPost(Posts(log), status)
       IN  IF next = "sleep"
           THEN /\ tasks' = [tasks EXCEPT ![i].pc = "sleep", ![i].log = log]
                /\ UNCHANGED embeddings_hf_api
           ELSE /\ tasks' = [tasks EXCEPT ![i].pc = "returned", ![i].log = log,
                                          ![i].result = next]
                /\ embeddings_hf_api' = Released(embeddings_hf_api)
    /\ OnlyHfApi

\* line 116: await asyncio.sleep(20), inside the semaphore
hf_sleep(i) ==
    /\ tasks[i].pc = "sleep"
    /\ tasks' = [tasks EXCEPT ![i].pc = "post",
                              ![i].log = Append(@, WaitEvent(20))]
    /\ UNCHANGED embeddings_hf_api
    /\ OnlyHfApi

----------------------------------------------------------------------------
(* SpecHfApi: MaxHfCalls concurrent calls of the remote backend *)

InitHfApi ==
    /\ reports = <<>>
    /\ matches = <<>>
    /\ GENERATE_EMBEDDINGS_LOCALLY = FALSE
    /\ USE_HF_API = TRUE
    /\ last = Response("none", 0, 0)
    /\ improved = FALSE
    /\ run = Idle
    /\ environ = ConfiguredEnviron
    /\ supabase_client = ModuleClient(ConfiguredEnviron, TRUE)
    /\ embeddings = Imported
    /\ embeddings_hf_api = ImportedHfApi
    /\ tasks = [i \in 1..MaxHfCalls |-> HfNotCalled]
    /\ plan_cuidado = <<>>
    /\ checklist_cuidado = <<>>

HCall == \E i \in 1..MaxHfCalls, image_valid \in BOOLEAN :
             generate_embedding_from_bytes(i, image_valid)
HAcquire == \E i \in 1..MaxHfCalls : hf_acquire(i)
HPost == \E i \in 1..MaxHfCalls, status \in PostOutcomes : hf_post(i, status)
HSleep == \E i \in 1..MaxHfCalls : hf_sleep(i)

NextHfApi ==
    \/ HCall
    \/ HAcquire
    \/ HPost
    \/ HSleep

SpecHfApi == InitHfApi /\ [][NextHfApi]_vars

----------------------------------------------------------------------------
(* SpecRematch: reports whose photos change, the two finders, and users
   accepting or rejecting the stored matches *)

MaxRematchReports == 2
MaxRematchMatches == 1

KCreate == CreateValid(SinglePhotoLists, {NoOutcomes})
               /\ Bounded(MaxRematchReports, MaxRematchMatches)
KUpdate == UpdateReport(1..MaxRematchReports, {[photos |-> p] : p \in SinglePhotoLists},
                        {NoOutcomes, [i \in 1..max_retries |-> "matcherror"]})
               /\ Bounded(MaxRematchReports, MaxRematchMatches)
KFind == FindMatchesForReport(1..MaxRematchReports, {threshold, 90000})
               /\ Bounded(MaxRematchReports, MaxRematchMatches)
KUpdateMatchStatus == UpdateMatchStatus(1..MaxRematchMatches)

NextRematch ==
    \/ KCreate
    \/ KUpdate
    \/ KFind
    \/ KUpdateMatchStatus

SpecRematch == Init /\ [][NextRematch]_vars

----------------------------------------------------------------------------
(* find_and_save_matches (routers/reports.py) and _save_matches_to_db
   (hf-upload/routers/direct_matches.py) as coroutines of one event loop, one
   step per call of the database client.  The client is synchronous: neither
   function contains an await, so a coroutine that has entered one of them
   keeps the loop until it leaves it *)

MaxSavers == 2

NotSaving == [entry |-> "none", pc |-> "idle", report_id |-> 0, todo |-> <<>>,
              seen |-> 0]

\* the variant in which the database client is awaited: the coroutine is
\* suspended between its select and its insert or update
SuspendedAlsoAtTheClient(pc) == pc \in {"idle", "done", "write"}

\* the positions at which a coroutine has given up the loop
Suspended(pc) == pc \in {"idle", "done"}

\* the loop is free for task i to take its next step
CanRun(i) == \A j \in DOMAIN tasks \ {i} : Suspended(tasks[j].pc)

\* one entry of matches_found or of the list "matches": the other report and
\* the score the finder computed for it
Candidate(c, score) == [candidate_id |-> c, score |-> score]

OnlySaving ==
    /\ UNCHANGED <<reports, GENERATE_EMBEDDINGS_LOCALLY, USE_HF_API, last, run,
                   environ, supabase_client, embeddings, embeddings_hf_api,
                   plan_cuidado, checklist_cuidado>>
    /\ improved' = Improved(matches, matches')

\* where a finder goes once todo is what is left of its list
LoopAt(todo) == IF todo = <<>> THEN "done" ELSE "check"

\* find_and_save_matches up to its loop (reports.py 256-362)
discovery_begin(i, report_id) ==
    /\ tasks[i].pc = "idle"
    /\ CanRun(i)
    /\ report_id \in ReportIds
    /\ reports[report_id].embedding # NoEmbedding
    /\ LET found == matches_found(reports, report_id)
           todo  == [k \in 1..Len(found) |->
                        Candidate(found[k], Dot(reports[report_id].embedding,
                                                reports[found[k]].embedding))]
       IN  tasks' = [tasks EXCEPT ![i] = [entry |-> "discovery", pc |-> LoopAt(todo),
                                          report_id |-> report_id, todo |-> todo,
                                          seen |-> 0]]
    /\ UNCHANGED matches
    /\ OnlySaving

\* find_matches_for_report up to the loop of _save_matches_to_db
\* (direct_matches.py 84-227, 252-256)
direct_begin(i, report_id, match_threshold, top_k) ==
    /\ tasks[i].pc = "idle"
    /\ CanRun(i)
    /\ report_id \in ReportIds
    /\ reports[report_id].embedding # NoEmbedding
    /\ LET top  == top_matches(reports, report_id, match_threshold, top_k)
           todo == [k \in 1..Len(top) |->
                       Candidate(top[k], DirectScores(reports, report_id)[top[k]])]
       IN  tasks' = [tasks EXCEPT ![i] = [entry |-> "direct", pc |-> LoopAt(todo),
                                          report_id |-> report_id, todo |-> todo,
                                          seen |-> 0]]
    /\ UNCHANGED matches
    /\ OnlySaving

\* the pair of the entry a finder is at
LostOf(t) == IF reports[t.report_id].type = "lost" THEN t.report_id
             ELSE Head(t.todo).candidate_id
FoundOf(t) == IF reports[t.report_id].type = "lost" THEN Head(t.todo).candidate_id
              ELSE t.report_id

\* the select of the pair (reports.py 380-391, direct_matches.py 268-272):
\* seen is existing.data[0], or 0 when existing.data is empty
save_check(i) ==
    /\ tasks[i].pc = "check"
    /\ CanRun(i)
    /\ LET ex == Existing(matches, LostOf(tasks[i]), FoundOf(tasks[i]))
       IN  tasks' = [tasks EXCEPT ![i].pc = "write",
                                  ![i].seen = IF ex = {} THEN 0 ELSE Min(ex)]
    /\ UNCHANGED matches
    /\ OnlySaving

\* the update or the insert that follows (reports.py 393-406,
\* direct_matches.py 274-294)
save_write(i) ==
    /\ tasks[i].pc = "write"
    /\ CanRun(i)
    /\ LET t       == tasks[i]
           score   == Head(t.todo).score
           rounded == IF t.entry = "discovery" THEN Round4(score) ELSE score
           row     == [lost_report_id |-> LostOf(t), found_report_id |-> FoundOf(t),
                       similarity_score |-> rounded, matched_by |-> "ai_visual",
                       status |-> "pending"]
       IN  /\ matches' =
                 IF t.seen = 0 THEN Append(matches, row)
                 ELSE IF score > matches[t.seen].similarity_score
                 THEN [matches EXCEPT ![t.seen] = row]
                 ELSE matches
           /\ tasks' = [tasks EXCEPT ![i].todo = Tail(@), ![i].seen = 0,
                                     ![i].pc = LoopAt(Tail(t.todo))]
    /\ OnlySaving

----------------------------------------------------------------------------
(* SpecSaving: reports created without discovery, then MaxSavers concurrent
   finders *)

MaxSaveReports == 2

InitSaving ==
    /\ reports = <<>>
    /\ matches = <<>>
    /\ GENERATE_EMBEDDINGS_LOCALLY = TRUE
    /\ USE_HF_API = FALSE
    /\ last = Response("none", 0, 0)
    /\ improved = FALSE
    /\ run = Idle
    /\ environ = ConfiguredEnviron
    /\ supabase_client = ModuleClient(ConfiguredEnviron, TRUE)
    /\ embeddings = Imported
    /\ embeddings_hf_api = ImportedHfApi
    /\ tasks = [i \in 1..MaxSavers |-> NotSaving]
    /\ plan_cuidado = <<>>
    /\ checklist_cuidado = <<>>

VCreate ==
    /\ \A i \in DOMAIN tasks : Suspended(tasks[i].pc)
    /\ CreateValid({<<1>>, <<2>>}, {[i \in 1..max_retries |-> "matcherror"]})
    /\ Len(reports') <= MaxSaveReports
VDiscovery == \E i \in 1..MaxSavers, report_id \in 1..MaxSaveReports :
                  discovery_begin(i, report_id)
VDirect == \E i \in 1..MaxSavers, report_id \in 1..MaxSaveReports :
               \E match_threshold \in {threshold, 90000}, top_k \in {1, 10} :
                   direct_begin(i, report_id, match_threshold, top_k)
VCheck == \E i \in 1..MaxSavers : save_check(i)
VWrite == \E i \in 1..MaxSavers : save_write(i)

NextSaving ==
    \/ VCreate
    \/ VDiscovery
    \/ VDirect
    \/ VCheck
    \/ VWrite

SpecSaving == InitSaving /\ [][NextSaving]_vars

----------------------------------------------------------------------------
(* SpecRace: an update request followed await by await (run) while other
   update requests of the same reports are served; every download, inference
   and write succeeds.  The other requests run from start to end while the
   first waits for its download *)

MaxRaceReports == 2

QCreate ==
    /\ run.pc = "idle"
    /\ CreateValid({<<1>>}, {NoOutcomes})
    /\ Bounded(MaxRaceReports, MaxRaceReports)
QUpdateBegin ==
    \E report_id \in 1..MaxRaceReports, p \in {1, 2} :
        update_report_begin(report_id, [photos |-> <<p>>])
QUpdate ==
    /\ UpdateReport(1..MaxRaceReports, {[photos |-> <<p>>] : p \in {1, 2}}, {NoOutcomes})
    /\ Bounded(MaxRaceReports, MaxRaceReports)
QAttempt == attempt_step("ok")
QDiscover == discover_step /\ Bounded(MaxRaceReports, MaxRaceReports)
QRespond == respond_step

NextRace ==
    \/ QCreate
    \/ QUpdateBegin
    \/ QUpdate
    \/ QAttempt
    \/ QDiscover
    \/ QRespond

SpecRace == Init /\ [][NextRace]_vars

----------------------------------------------------------------------------
(* SpecPending: reports of two users, their discovered matches, users
   accepting or rejecting them, and the listing of matches by report or user *)

MaxPendingReports == 3
MaxPendingMatches == 2

Users == {"u1", "u2"}

PCreate ==
    \E t \in Types, u \in Users :
        /\ create_report([FullPayload(t, "dog", <<1>>) EXCEPT !.reporter_id = u],
                         TRUE, NoOutcomes)
        /\ Config
        /\ Bounded(MaxPendingReports, MaxPendingMatches)
PUpdateMatchStatus == UpdateMatchStatus(1..MaxPendingMatches)
PGetPendingMatches ==
    \E report_id \in 0..MaxPendingReports, user_id \in Users \cup {""},
       status \in MatchStatuses :
        get_pending_matches(report_id, user_id, status) /\ Config

NextPending ==
    \/ PCreate
    \/ PUpdateMatchStatus
    \/ PGetPendingMatches

SpecPending == Init /\ [][NextPending]_vars

----------------------------------------------------------------------------
(* SpecLifecycle: reports that are deleted, resolved and reactivated in any
   order *)

MaxCycleReports == 2

ZCreate == CreateValid({<<>>, <<1>>}, {NoOutcomes})
               /\ Bounded(MaxCycleReports, MaxCycleReports)
ZUpdate == UpdateReport(1..MaxCycleReports, {[status |-> "active"]}, {NoOutcomes})
               /\ Bounded(MaxCycleReports, MaxCycleReports)
ZDelete == DeleteReport(1..(MaxCycleReports + 1))
ZResolve == ResolveReport(1..(MaxCycleReports + 1))

NextLifecycle ==
    \/ ZCreate
    \/ ZUpdate
    \/ ZDelete
    \/ ZResolve

SpecLifecycle == InitReports /\ [][NextLifecycle]_vars

----------------------------------------------------------------------------
(* routers/pets.py: POST /pets/{pet_id}/care-plans.  A row of plan_cuidado is
   the request body with id_mascota and without the key checklist; a row of
   checklist_cuidado is an item with the id of its plan *)

care_plan_fields == {"nombre", "fecha_inicio"}

NoChecklist == <<>>

\* plan_data.pop("checklist", [])
Checklist(plan_data) ==
    IF "checklist" \in DOMAIN plan_data THEN plan_data.checklist ELSE NoChecklist

\* the row sent to plan_cuidado
PlanRow(pet_id, plan_data) ==
    [k \in (DOMAIN plan_data \ {"checklist"}) \cup {"id_mascota"} |->
        IF k = "id_mascota" THEN pet_id ELSE plan_data[k]]

\* {**item, "id_plan": plan_id} for each item
ChecklistRows(plan_id, checklist_items) ==
    [k \in 1..Len(checklist_items) |-> [item |-> checklist_items[k], id_plan |-> plan_id]]

\* plan_insert: the insert of the plan returns the row ("ok"), returns no row
\* ("nodata") or raises; checklist_ok: the insert of the items does not raise
create_care_plan(pet_id, plan_data, plan_insert, checklist_ok) ==
    LET checklist_items == Checklist(plan_data)
        plan_id         == Len(plan_cuidado) + 1
        respond(code, id) == last' = Answer("create_care_plan", code, id, checklist_items)
    IN  IF ~(care_plan_fields \subseteq DOMAIN plan_data)
        THEN /\ respond(400, 0)
             /\ UNCHANGED <<plan_cuidado, checklist_cuidado>>
        ELSE IF plan_insert # "ok"
        THEN /\ respond(500, 0)
             /\ UNCHANGED <<plan_cuidado, checklist_cuidado>>
        ELSE /\ plan_cuidado' = Append(plan_cuidado, PlanRow(pet_id, plan_data))
             /\ IF checklist_items = <<>>
                THEN /\ respond(200, plan_id)
                     /\ UNCHANGED checklist_cuidado
                ELSE IF checklist_ok
                THEN /\ respond(200, plan_id)
                     /\ checklist_cuidado' =
                            checklist_cuidado \o ChecklistRows(plan_id, checklist_items)
                ELSE /\ respond(500, plan_id)
                     /\ UNCHANGED checklist_cuidado

OnlyCare ==
    UNCHANGED <<reports, matches, GENERATE_EMBEDDINGS_LOCALLY, USE_HF_API, improved,
                run, environ, supabase_client, embeddings, embeddings_hf_api, tasks>>

----------------------------------------------------------------------------
(* SpecCare: care plans created for two pets, with and without a checklist *)

MaxPlans == 2

CarePayloads ==
    LET full == [nombre |-> "n", fecha_inicio |-> "d", checklist |-> <<>>]
    IN  {[full EXCEPT !.checklist = c] : c \in {<<>>, <<"a">>, <<"a", "b">>}}
            \cup {Restrict(full, {"nombre", "fecha_inicio"}),
                  Restrict(full, {"nombre", "checklist"})}

CCreateCarePlan ==
    \E pet_id \in {1, 2}, plan_data \in CarePayloads :
        \E plan_insert \in {"ok", "nodata", "raises"}, checklist_ok \in BOOLEAN :
            /\ create_care_plan(pet_id, plan_data, plan_insert, checklist_ok)
            /\ Len(plan_cuidado') <= MaxPlans
            /\ OnlyCare

NextCare == CCreateCarePlan

SpecCare == InitDirect /\ [][NextCare]_vars

----------------------------------------------------------------------------
(* hf-upload/scripts/backfill_embeddings.py: the script that fills the
   embedding column over a direct database connection, one step per statement
   that reaches the database or waits.  The script is the entry of tasks:
   pc is where it stands, rows what is left of the batch it fetched. *)

BATCH == 50

\* an empty first entry of photos, which "if not url" skips
NoUrl == 0

\* the select of fetch_report_photos: the rows without embedding whose photos
\* hold at least one entry, at most limit of them
fetch_report_photos(R, limit) ==
    LET ids == [i \in 1..Len(R) |-> i]
        selected == SelectSeq(ids, LAMBDA r : /\ R[r].embedding = NoEmbedding
                                              /\ Len(R[r].photos) > 0)
    IN  [i \in 1..Len(Take(selected, limit)) |->
            [id |-> selected[i], photos |-> R[selected[i]].photos]]

OnlyBackfill ==
    /\ UNCHANGED <<matches, GENERATE_EMBEDDINGS_LOCALLY, USE_HF_API, last, run,
                   environ, supabase_client, embeddings, embeddings_hf_api,
                   plan_cuidado, checklist_cuidado>>
    /\ improved' = Improved(matches, matches')

\* main() up to its loop: without DATABASE_URL it raises RuntimeError
main(dsn) ==
    /\ tasks = <<>>
    /\ tasks' = <<[entry |-> "backfill",
                   pc    |-> IF dsn THEN "fetch" ELSE "raised",
                   rows  |-> <<>>]>>
    /\ UNCHANGED reports

\* "rows = fetch_report_photos(cur, BATCH)" and "if not rows: break"
backfill_fetch ==
    /\ tasks # <<>>
    /\ tasks[1].pc = "fetch"
    /\ LET rows == fetch_report_photos(reports, BATCH)
       IN  tasks' = [tasks EXCEPT ![1].rows = rows,
                                  ![1].pc = IF rows = <<>> THEN "done" ELSE "row"]
    /\ UNCHANGED reports

\* one iteration of "for rid, photos in rows": outcome is "ok" when the
\* download, the embedding and the update all succeed, "raises" otherwise
backfill_row(outcome) ==
    /\ tasks # <<>>
    /\ tasks[1].pc = "row"
    /\ LET rid == Head(tasks[1].rows).id
           url == Head(tasks[1].rows).photos[1]
           rest == Tail(tasks[1].rows)
       IN  /\ reports' = IF url # NoUrl /\ outcome = "ok"
                         THEN WriteEmbedding(reports, rid, url)
                         ELSE reports
           /\ tasks' = [tasks EXCEPT ![1].rows = rest,
                                     ![1].pc = IF rest = <<>> THEN "sleep" ELSE "row"]

\* time.sleep(0.2), then the next turn of "while True"
backfill_sleep ==
    /\ tasks # <<>>
    /\ tasks[1].pc = "sleep"
    /\ tasks' = [tasks EXCEPT ![1].pc = "fetch"]
    /\ UNCHANGED reports

----------------------------------------------------------------------------
(* SpecBackfill: reports created by a backend that generates no embedding,
   with no photo, an empty first photo or a photo, while the script runs.
   SpecBackfillFair: the script is a sequential program of its own process,
   so a statement it has reached is eventually executed. *)

MaxBackfillReports == 3

BCreate ==
    /\ CreateValid({<<>>, <<NoUrl>>, <<1>>}, {NoOutcomes})
    /\ Bounded(MaxBackfillReports, 0)

BMain == \E dsn \in BOOLEAN : main(dsn) /\ OnlyBackfill

BFetch == backfill_fetch /\ OnlyBackfill

BRow == \E outcome \in {"ok", "raises"} : backfill_row(outcome) /\ OnlyBackfill

BSleep == backfill_sleep /\ OnlyBackfill

NextBackfill == BCreate \/ BMain \/ BFetch \/ BRow \/ BSleep

SpecBackfill == InitDirect /\ [][NextBackfill]_vars

SpecBackfillFair == SpecBackfill /\ WF_vars(BFetch \/ BRow \/ BSleep)

----------------------------------------------------------------------------
(* SpecInference: the start-up pre-load with each of its outcomes, then
   MaxCallers calls through the two entry points of services/embeddings.py *)

InitInference ==
    /\ reports = <<>>
    /\ matches = <<>>
    /\ GENERATE_EMBEDDINGS_LOCALLY = TRUE
    /\ USE_HF_API = FALSE
    /\ last = Response("none", 0, 0)
    /\ improved = FALSE
    /\ run = Idle
    /\ environ = ConfiguredEnviron
    /\ supabase_client = ModuleClient(ConfiguredEnviron, TRUE)
    /\ embeddings = Imported
    /\ embeddings_hf_api = ImportedHfApi
    /\ tasks = <<StartupTask>> \o [i \in 1..MaxCallers |-> NotCalled]
    /\ plan_cuidado = <<>>
    /\ checklist_cuidado = <<>>

IStartup ==
    \E generate_locally, create_ok, probe_ok \in BOOLEAN :
        startup_event(generate_locally, create_ok, probe_ok)
ICallAsync == \E i \in Callers : image_bytes_to_vec_async(i)
ICallSync == \E i \in Callers : image_bytes_to_vec(i)
IAcquire == \E i \in Callers : acquire(i)
ILoadTest == \E i \in Callers : load_test(i)
ILoadCreate == \E i \in Callers, create_ok \in BOOLEAN : load_create(i, create_ok)
ILoadProbe == \E i \in Callers, probe_ok \in BOOLEAN : load_probe(i, probe_ok)
IInfer == \E i \in Callers, image_ok \in BOOLEAN : infer(i, image_ok)
IResume == \E i \in Callers : resume(i)

NextInference ==
    \/ IStartup
    \/ ICallAsync
    \/ ICallSync
    \/ IAcquire
    \/ ILoadTest
    \/ ILoadCreate
    \/ ILoadProbe
    \/ IInfer
    \/ IResume

SpecInference == InitInference /\ [][NextInference]_vars

----------------------------------------------------------------------------
(* SpecStartup: the import of main.py in every environment, and the endpoints
   of main.py that report on the client *)

InitStartup ==
    /\ reports = <<>>
    /\ matches = <<>>
    /\ GENERATE_EMBEDDINGS_LOCALLY = FALSE
    /\ USE_HF_API = TRUE
    /\ last = Response("none", 0, 0)
    /\ improved = FALSE
    /\ run = Idle
    /\ environ \in [SUPABASE_URL : UrlValues,
                    SUPABASE_SERVICE_KEY : ServiceKeyValues,
                    SUPABASE_ANON_KEY : AnonKeyValues]
    /\ supabase_client = Unbound
    /\ Quiet

SStartup == \E constructs \in BOOLEAN : Startup(constructs)
SHealth == health
SVersion == version
SSupabaseStatus == \E query_ok \in BOOLEAN : supabase_status(query_ok)

NextStartup ==
    \/ SStartup
    \/ SHealth
    \/ SVersion
    \/ SSupabaseStatus

SpecStartup == InitStartup /\ [][NextStartup]_vars

----------------------------------------------------------------------------
(* SpecGeo: the operations that read locations, over reports stored in either
   form at the points of the model, under the default configuration *)

MaxGeoReports == 2

GeoPayload(t, location) ==
    [FullPayload(t, "dog", <<>>) EXCEPT !.location = location]

\* where the user of a nearby listing or of a visual search stands
UserPoints == {<<0, 0>>, <<6000, 0>>}

GCreate ==
    \E t \in Types, pt \in Points :
        \E location \in {GeoJSON(pt[2], pt[1]), EWKT(pt[2], pt[1])} :
            /\ create_report(GeoPayload(t, location), TRUE, NoOutcomes)
            /\ Config
            /\ Bounded(MaxGeoReports, 0)
GDelete == DeleteReport({1})
GIndex == IndexReportEmbedding({1}, {1})
GNearby ==
    \E pt \in UserPoints : get_nearby_reports_at(pt[1], pt[2], 10) /\ Config
GAutoMatch ==
    \E report_id \in 1..(MaxGeoReports + 1), top_k \in {1, 5}, single_raises \in BOOLEAN :
        auto_match(report_id, 10, top_k, single_raises) /\ Config
GAiSearch ==
    \E file \in {"empty", "image"}, pt \in UserPoints,
       search_type \in {"lost", "both", "any"}, rpc_ok \in BOOLEAN, days_old \in {0, 40} :
        ai_search(file, 1, pt[1], pt[2], 10, search_type, rpc_ok, days_old) /\ Config

NextGeo ==
    \/ GCreate
    \/ GDelete
    \/ GIndex
    \/ GNearby
    \/ GAutoMatch
    \/ GAiSearch

SpecGeo == InitDirect /\ [][NextGeo]_vars

----------------------------------------------------------------------------
(* Properties of the matches table (Spec, SpecDiscovery) *)

\* C1: after any sequence of match-writing operations the matches table holds
\* at most one row for each ordered (lost_report_id, found_report_id) pair.
C1_OneRowPerPair ==
    \A i, j \in MatchIds :
        (/\ matches[i].lost_report_id = matches[j].lost_report_id
         /\ matches[i].found_report_id = matches[j].found_report_id) => i = j

\* Two runs of automatic match discovery in succession for report r of table R
\* over the matches M, the second after the embedding of r became that of
\* photo p: for every candidate c retained by both runs whose similarity is
\* higher the second time, the pair has one row afterwards, and it holds the
\* second similarity rounded to 4 decimals.
TwoRunsKeepTheHigher(R, M, r, p) ==
    LET M1 == find_and_save_matches(R, M, r)
        R2 == WriteEmbedding(R, r, p)
        M2 == find_and_save_matches(R2, M1, r)
    IN  \A c \in 1..Len(R) :
            LET l  == IF R[r].type = "lost" THEN r ELSE c
                f  == IF R[r].type = "lost" THEN c ELSE r
                s1 == Dot(R[r].embedding, R[c].embedding)
                s2 == Dot(p, R[c].embedding)
            IN  (/\ R[c].type # R[r].type
                 /\ R[c].status = "active"
                 /\ R[c].embedding # NoEmbedding
                 /\ s1 >= threshold
                 /\ s2 > s1
                 /\ \A i \in Existing(M, l, f) :
                        /\ Existing(M, l, f) = {i}
                        /\ M[i].similarity_score <= Round4(s1))
                => /\ Cardinality(Existing(M2, l, f)) = 1
                   /\ \A i \in Existing(M2, l, f) :
                          M2[i].similarity_score = Round4(s2)

C3_LostAndFound ==
    \A i \in MatchIds :
        /\ matches[i].lost_report_id \in ReportIds
        /\ matches[i].found_report_id \in ReportIds
        /\ reports[matches[i].lost_report_id].type = "lost"
        /\ reports[matches[i].found_report_id].type = "found"
        /\ matches[i].lost_report_id # matches[i].found_report_id

\* C4: update_match_status with accepted or rejected on an existing match
\* sets the status of that row to the given value; the other columns of the
\* row, every other match row and the reports are unchanged.
C4_OnlyTheStatusOfTheRow ==
    [][last'.op = "update_match_status" =>
          \A match_id \in MatchIds, status \in {"accepted", "rejected"} :
              \/ /\ last'.code = 200
                 /\ Len(matches') = Len(matches)
                 /\ matches'[match_id].status = status
                 /\ \A k \in DOMAIN matches[match_id] \ {"status"} :
                        matches'[match_id][k] = matches[match_id][k]
                 /\ \A j \in MatchIds \ {match_id} : matches'[j] = matches[j]
                 /\ reports' = reports
              \/ ~update_match_status(match_id, status)]_vars

\* C4, reached: one of two pending rows was accepted, the other is still
\* pending.
C4_OneOfTwoAccepted ==
    /\ last = Response("update_match_status", 200, 1)
    /\ Len(matches) = 2
    /\ matches[1].status = "accepted"
    /\ matches[2].status = "pending"

\* C5: update_match_status with a value other than accepted or rejected
\* answers 400, whether or not the match exists, and with a valid value and
\* a match id that does not exist answers 404; in both cases no row changes.
C5_RejectedWithoutWrite ==
    [][last'.op = "update_match_status" =>
          \A match_id \in 1..(Len(matches) + 1), status \in MatchStatuses :
              \/ ~update_match_status(match_id, status)
              \/ /\ status \in {"accepted", "rejected"}
                 /\ match_id \in MatchIds
              \/ /\ last'.code = (IF status \notin {"accepted", "rejected"}
                                  THEN 400 ELSE 404)
                 /\ matches' = matches
                 /\ reports' = reports]_vars

\* C5, reached: an invalid value was sent for an existing accepted row, the
\* answer is 400 and the row is still accepted.
C5_InvalidValueOnExistingRow ==
    /\ last.op = "update_match_status"
    /\ last.code = 400
    /\ last.id \in MatchIds
    /\ matches[last.id].status = "accepted"

----------------------------------------------------------------------------
(* Properties of the reports table (SpecReports, SpecFields) *)

\* the nearby listing at its widest: every location parses and is in range
Anywhere == ReportIds

C7_TypeNeverChanges ==
    [][\A r \in ReportIds :
           /\ r \in 1..Len(reports')
           /\ reports'[r].type = reports[r].type]_vars

\* C8: create_report answers 400 and stores nothing for a payload that
\* carries every required field and 6 photos, and stores the report of such
\* a payload with 5 photos or fewer.
C8_PhotoLimit ==
    [][last'.op = "create_report" =>
          \A t \in Types, p \in {<<>>, <<1>>, SixPhotos}, outs \in LifeOutcomeSeqs :
              \/ ~create_report(FullPayload(t, "dog", p), TRUE, outs)
              \/ IF Len(p) > PhotoLimit
                 THEN last'.code = 400 /\ reports' = reports
                 ELSE last'.code = 200 /\ Len(reports') = Len(reports) + 1]_vars

C10_EmbeddingNeverFailsTheRequest ==
    [][/\ last'.op = "create_report" =>
              /\ Len(reports') \in {Len(reports), Len(reports) + 1}
              /\ Len(reports') > Len(reports)
                     => last' = Response("create_report", 200, Len(reports'))
              /\ last'.code # 200 => reports' = reports
              /\ \A r \in ReportIds : reports'[r] = reports[r]
       /\ (last'.op = "update_report" /\ last'.id \in ReportIds) =>
              /\ last'.code = 200
              /\ Len(reports') = Len(reports)
              /\ \A r \in ReportIds \ {last'.id} : reports'[r] = reports[r]]_vars

\* C10, reached: with local generation on, a report was created with a photo,
\* no attempt saved an embedding, and the answer is 200 for the stored row.
C10_CreatedWithoutEmbedding ==
    /\ last.op = "create_report"
    /\ last.code = 200
    /\ GENERATE_EMBEDDINGS_LOCALLY
    /\ last.id = Len(reports)
    /\ reports[last.id].photos # <<>>
    /\ reports[last.id].embedding = NoEmbedding

----------------------------------------------------------------------------
(* Properties of a request step by step (SpecRequest, SpecRequestFair) *)

\* the loop of generate_and_save_embedding has ended: its last attempt saved the
\* embedding and the discovery of matches followed, or it was the attempt
\* max_retries - 1 and failed
GenerationFinished(log) ==
    /\ Len(Attempts(log)) > 0
    /\ LET a == Attempts(log)[Len(Attempts(log))]
       IN  IF a.eff \in {"ok", "matcherror"}
           THEN /\ Len(Discoveries(log)) = 1
                /\ log[Len(log)].ev = "discover"
                /\ log[Len(log)].n = run.report_id
           ELSE /\ a.n = max_retries - 1
                /\ Len(Discoveries(log)) = 0

\* the response of the request in run has been returned
Responded == run.pc = "idle" /\ run.op \in {"create_report", "update_report"}

C12_BackendsInterchangeable ==
    \A i \in 1..Len(run.log) :
        (run.log[i].ev = "attempt" /\ run.log[i].out \in {"ok", "matcherror"})
            => /\ reports[run.report_id].embedding = run.photo_url
               /\ \/ run.pc = "discover" /\ i = Len(run.log)
                  \/ i < Len(run.log) /\ run.log[i + 1].ev = "discover"

\* C19: generate_and_save_embedding makes at most max_retries attempts and then
\* returns, whatever the attempts meet; the request that called it answers.
C19_AtMostThreeAttemptsThenReturns ==
    /\ [](/\ Len(Attempts(run.log)) <= max_retries
          /\ run.pc \in {"idle", "attempt", "sleep", "discover", "respond"})
    /\ [][run.pc # "idle" /\ run'.pc = "idle" => last'.code = 200]_vars
    /\ (run.pc # "idle") ~> (run.pc = "idle")

\* a request answered after three attempts that met a timeout, another error
\* and a write that affected no row
C19_ThreeKindsOfFailure ==
    /\ Responded
    /\ last = Response(run.op, 200, run.report_id)
    /\ Len(Attempts(run.log)) = max_retries
    /\ {Attempts(run.log)[i].eff : i \in 1..max_retries} = {"timeout", "error", "norow"}

\* C20: every failed attempt that is followed by another attempt is followed
\* at once by a wait of 2^attempt seconds, whatever made it fail.
C20_WaitBeforeEveryRetry ==
    \A i \in 1..Len(run.log) :
        (/\ run.log[i].ev = "attempt"
         /\ \E j \in (i + 1)..Len(run.log) : run.log[j].ev = "attempt")
            => run.log[i + 1] = SleepEvent(run.log[i].n, 2 ^ run.log[i].n)

----------------------------------------------------------------------------
(* Properties of the direct-match finder (SpecDirect) *)

\* C16: the list find_matches_for_report returns for report R has no entry for
\* R itself; every entry is an active report of the opposite type, of R's
\* species when R has one, whose similarity is at least the threshold; there
\* are at most top_k entries, each report once, in descending order of score.
C16_DirectMatchesAreSound ==
    \A r \in ReportIds, th \in DirectThresholds, k \in DirectTopK :
        reports[r].embedding # NoEmbedding =>
            LET top   == top_matches(reports, r, th, k)
                score == DirectScores(reports, r)
            IN  /\ Len(top) <= k
                /\ \A i \in 1..Len(top) :
                       /\ top[i] \in ReportIds \ {r}
                       /\ reports[top[i]].status = "active"
                       /\ reports[top[i]].type # reports[r].type
                       /\ reports[r].species # ""
                              => reports[top[i]].species = reports[r].species
                       /\ Cosine(reports[r].embedding, reports[top[i]].embedding) >= th
                /\ \A i, j \in 1..Len(top) :
                       i < j => top[i] # top[j] /\ score[top[i]] >= score[top[j]]

\* the finder has answered for a report with a species and stored its two
\* candidates, which differ in score; with top_k = 1 it returns the better one
C16_TwoRanked ==
    /\ last.op = "find_matches_for_report"
    /\ last.code = 200
    /\ reports[last.id].species = "dog"
    /\ Len(matches) = 2
    /\ LET top   == top_matches(reports, last.id, threshold, 10)
           score == DirectScores(reports, last.id)
       IN  /\ Len(top) = 2
           /\ score[top[1]] > score[top[2]]
           /\ top_matches(reports, last.id, threshold, 1) = <<top[1]>>
           /\ top[1] > top[2]

----------------------------------------------------------------------------
(* Properties of the primary embeddings router (SpecFields) *)

\* C17: POST /embeddings/generate with an empty upload answers 400, and
\* POST /embeddings/index/{report_id} with a decodable image answers 404 when
\* the update of the embedding affects no row.
C17_ClientErrorStatuses ==
    /\ (last.op = "generate_embedding" /\ last.body = "empty") => last.code = 400
    /\ (/\ last.op = "index_report_embedding"
        /\ last.id \notin ReportIds
        /\ last.code # 400) => last.code = 404

----------------------------------------------------------------------------
(* Properties of the start-up (SpecStartup) *)

\* the credential main.py selects: the service key, or the anonymous key when
\* the service key is absent
SelectedKey == Or(environ.SUPABASE_SERVICE_KEY, environ.SUPABASE_ANON_KEY)

\* C18: with the URL set, the service key absent and the anonymous key present,
\* the client is built with the anonymous key and /health reports the database
\* as configured; the client is None only when the URL or both keys are missing
\* or the construction of the client fails.
C18_AnonymousFallback ==
    supabase_client # Unbound =>
        /\ (/\ Truthy(environ.SUPABASE_URL)
            /\ ~Truthy(environ.SUPABASE_SERVICE_KEY)
            /\ Truthy(environ.SUPABASE_ANON_KEY)
            /\ last = Answer("startup", 0, 0, TRUE))
               => supabase_client = Client(environ.SUPABASE_URL,
                                           environ.SUPABASE_ANON_KEY)
        /\ last.op = "health"
               => (last.body = "conectado") = (supabase_client # None)
        /\ (supabase_client = None /\ last.op = "startup")
               => \/ ~Truthy(environ.SUPABASE_URL)
                  \/ ~Truthy(SelectedKey)
                  \/ last.body = FALSE

----------------------------------------------------------------------------
(* Properties of the operations that read locations (SpecGeo) *)

\* C13: a location stored as "SRID=4326;POINT(lon lat)" resolves to the same
\* (lat, lon) as the GeoJSON point of the same coordinates in the nearby
\* listing, in auto-match and in the visual search; none takes it for missing.
C13_BothFormsResolve ==
    /\ \A r \in ReportIds :
           LET loc == reports[r].location
               c   == _extract_coords(loc)
           IN  /\ c # NoCoords
               /\ matches_coords(loc) = c
               /\ ai_search_coords(loc) = c
    /\ (last.op = "auto_match" /\ last.id \in ReportIds) => last.code = 200

\* the reports auto-match must count for base report r: active, of the opposite
\* type and the same species, with a location auto-match parses, within
\* radius_km by the Haversine distance
WithinRadiusOf(r, radius_km) ==
    LET base_pt == matches_coords(reports[r].location)
    IN  {c \in AutoCandidates(reports, r) :
            LET pt == matches_coords(reports[c].location)
            IN  /\ pt # NoCoords
                /\ haversine_km(base_pt[1], base_pt[2], pt[1], pt[2]) <= radius_km * 1000}

\* C14: total_candidates of auto-match is the number of active reports of the
\* opposite type and the same species whose location parses and lies within
\* radius_km of the base by the Haversine distance, and top_k holds the first
\* top_k of these in descending order of score.
C14_AutoMatchCountsTheRadius ==
    (last.op = "auto_match" /\ last.code = 200) =>
        LET expected == WithinRadiusOf(last.id, last.body.radius_km)
            score    == [c \in ReportIds |->
                            IF c \in expected THEN AutoScore(reports, last.id, c) ELSE 0]
        IN  /\ last.body.total_candidates = Cardinality(expected)
            /\ last.body.top_k = Take(SortDesc(expected, score), last.body.k)

\* C15: when the vector search of the visual search fails or returns no report
\* of the requested type, the returned list is not empty if some active report
\* of the requested type has a location the search parses within radius_km of
\* the user.
C15_FallbackNeverEmpty ==
    (/\ last.op = "ai_search"
     /\ last.code = 200
     /\ \A i \in 1..Len(last.body.similar) :
            /\ last.body.search_type # "both"
            /\ reports[last.body.similar[i]].type # last.body.search_type
     /\ \E r \in ReportIds :
            LET pt == ai_search_coords(reports[r].location)
            IN  /\ reports[r].status = "active"
                /\ last.body.search_type \in {"both", reports[r].type}
                /\ pt # NoCoords
                /\ haversine_km(last.body.user_lat, last.body.user_lng, pt[1], pt[2])
                       <= last.body.radius_km * 1000)
        => last.body.matches # <<>>

----------------------------------------------------------------------------
(* C21: at any moment at most 2 local model inferences are in flight in the
   process, counting the calls made through image_bytes_to_vec_async and
   through image_bytes_to_vec *)
C21_AtMostTwoInFlight == Cardinality(InFlight) <= 2

----------------------------------------------------------------------------
(* C22: in any execution, including a failed or disabled pre-load followed by
   two concurrent first inferences on worker threads, the local model is
   constructed at most once *)
C22_ConstructedAtMostOnce == embeddings.created <= 1

----------------------------------------------------------------------------
(* C23: each call of the remote backend sends at most two inference requests;
   the second is sent only when the first answered 503 and only after a wait
   of 20 seconds; a second 503 is not retried and the call returns None, it
   does not raise *)
C23_OneRetryAfterTwentySeconds ==
    \A i \in DOMAIN tasks :
        LET log == tasks[i].log
        IN  /\ Posts(log) <= 2
            /\ Posts(log) = 2
                 => /\ Len(log) = 3
                    /\ log[1] = PostEvent(503)
                    /\ log[2] = WaitEvent(20)
            /\ tasks[i].result \in {"pending", "None", "embedding"}
            /\ (tasks[i].pc = "returned") = (tasks[i].result # "pending")
            /\ (Posts(log) = 2 /\ log[Len(log)] = PostEvent(503))
                 => tasks[i].pc = "returned" /\ tasks[i].result = "None"
            /\ tasks[i].result = "embedding" => log[Len(log)] = PostEvent(200)

\* a call answered 503 twice has returned None
C23_TwiceUnavailable ==
    \E i \in DOMAIN tasks :
        /\ tasks[i].log = <<PostEvent(503), WaitEvent(20), PostEvent(503)>>
        /\ tasks[i].result = "None"

----------------------------------------------------------------------------
(* C24: when automatic discovery or the direct finder computes, for a stored
   pair, a score strictly greater than the stored similarity_score, the update
   in place also sets status to pending and matched_by to ai_visual whatever
   the status was; when the computed score is not greater the row is left as
   it is *)

\* the row after a rescoring
Rescored(row, score) ==
    [row EXCEPT !.similarity_score = score, !.status = "pending",
                !.matched_by = "ai_visual"]

Elements(seq) == {seq[k] : k \in 1..Len(seq)}

\* the report on the other side of a row, seen from report r
OtherSide(R, r, row) ==
    IF R[r].type = "lost" THEN row.found_report_id ELSE row.lost_report_id

\* row i is the row the finders look up for the pair (r, its other side)
LookedUp(R, M, r, i) ==
    /\ (IF R[r].type = "lost" THEN M[i].lost_report_id ELSE M[i].found_report_id) = r
    /\ i = Min(Existing(M, M[i].lost_report_id, M[i].found_report_id))

\* discovery for report r once its embedding is that of photo p
DiscoveryRescores(R, M, r, p) ==
    LET R2 == WriteEmbedding(R, r, p)
        M2 == find_and_save_matches(R2, M, r)
    IN  \A i \in 1..Len(M) :
            LET c == OtherSide(R, r, M[i])
            IN  IF /\ LookedUp(R, M, r, i)
                   /\ c \in Elements(matches_found(R2, r))
                   /\ Dot(p, R2[c].embedding) > M[i].similarity_score
                THEN M2[i] = Rescored(M[i], Round4(Dot(p, R2[c].embedding)))
                ELSE M2[i] = M[i]

\* the direct finder for report r
DirectRescores(R, M, r, match_threshold, top_k) ==
    LET score == DirectScores(R, r)
        top   == top_matches(R, r, match_threshold, top_k)
        M2    == _save_matches_to_db(M, r, R[r].type, top, score)
    IN  \A i \in 1..Len(M) :
            LET c == OtherSide(R, r, M[i])
            IN  IF /\ LookedUp(R, M, r, i)
                   /\ c \in Elements(top)
                   /\ score[c] > M[i].similarity_score
                THEN M2[i] = Rescored(M[i], score[c])
                ELSE M2[i] = M[i]

C24_HigherScoreReopensTheMatch ==
    /\ [](\A r \in ReportIds, p \in PhotoUrls : DiscoveryRescores(reports, matches, r, p))
    /\ [](\A r \in ReportIds, match_threshold \in {threshold, 90000}, top_k \in {1, 10} :
              reports[r].embedding # NoEmbedding
                  => DirectRescores(reports, matches, r, match_threshold, top_k))
    /\ [][\A i \in MatchIds :
              (matches'[i] # matches[i] /\ last'.op # "update_match_status")
                  => /\ matches'[i].similarity_score >= matches[i].similarity_score
                     /\ matches'[i] = Rescored(matches[i], matches'[i].similarity_score)]_vars

\* C24, reached: a row that a user accepted or rejected, for which discovery
\* and the direct finder each compute a greater score and write pending
C24_SettledMatchReopened ==
    \E i \in MatchIds :
        /\ matches[i].status \in {"accepted", "rejected"}
        /\ \E r \in ReportIds, p \in PhotoUrls :
               /\ find_and_save_matches(WriteEmbedding(reports, r, p), matches, r)[i].status
                      = "pending"
               /\ LookedUp(reports, matches, r, i)
        /\ \E r \in ReportIds :
               /\ reports[r].embedding # NoEmbedding
               /\ _save_matches_to_db(matches, r, reports[r].type,
                      top_matches(reports, r, threshold, 10),
                      DirectScores(reports, r))[i].status = "pending"

----------------------------------------------------------------------------
(* C25: within one process, discovery and direct-match persistence have no
   suspension point between the existence check of a pair and the insert or
   update that follows, so under any interleaving of concurrent requests on
   the event loop they never insert two rows for the same ordered pair *)
C25_NoSecondRowForAPair ==
    /\ [](\A i, j \in MatchIds :
              (/\ matches[i].lost_report_id = matches[j].lost_report_id
               /\ matches[i].found_report_id = matches[j].found_report_id) => i = j)
    /\ [](\A i \in DOMAIN tasks :
              tasks[i].pc = "write"
                  => /\ CanRun(i)
                     /\ (tasks[i].seen = 0)
                          = (Existing(matches, LostOf(tasks[i]), FoundOf(tasks[i])) = {}))
    /\ [][Len(matches') > Len(matches)
              => /\ Len(matches') = Len(matches) + 1
                 /\ Existing(matches, matches'[Len(matches')].lost_report_id,
                             matches'[Len(matches')].found_report_id) = {}]_vars

\* C25, reached: two finders were started for the same pair, one through each
\* path, both have finished, and the pair has its row
C25_TwoFindersOnePair ==
    /\ Len(matches) = 1
    /\ \E i, j \in DOMAIN tasks :
           /\ tasks[i].entry = "discovery" /\ tasks[i].pc = "done"
           /\ tasks[j].entry = "direct" /\ tasks[j].pc = "done"
           /\ tasks[i].report_id # tasks[j].report_id
           /\ {tasks[i].report_id, tasks[j].report_id}
                  = {matches[1].lost_report_id, matches[1].found_report_id}

----------------------------------------------------------------------------
(* C26: when two update requests that both replace the photos of the same
   report run concurrently with synchronous generation enabled, then once both
   have completed the stored embedding is the one generated from the report's
   stored first photo *)
C26_EmbeddingOfTheStoredPhoto ==
    run.pc = "idle"
        => \A r \in ReportIds :
               reports[r].photos # <<>> => reports[r].embedding = reports[r].photos[1]

----------------------------------------------------------------------------
(* C27: get pending matches returns each stored match that has the requested
   status and involves the given report (or any report of the given user) as
   lost_report_id or found_report_id exactly once, also when both sides of a
   match are reports of the same user, and no other match *)
C27_EachMatchExactlyOnce ==
    (last.op = "get_pending_matches" /\ last.code = 200)
        => LET returned == last.body.matches
               asked    == IF last.id # 0 THEN {last.id}
                           ELSE {r \in ReportIds :
                                    reports[r].reporter_id = last.body.user_id}
               expected == {i \in MatchIds :
                               /\ matches[i].status = last.body.status
                               /\ \/ matches[i].lost_report_id \in asked
                                  \/ matches[i].found_report_id \in asked}
           IN  /\ {returned[k] : k \in 1..Len(returned)} = expected
               /\ \A j, k \in 1..Len(returned) : returned[j] = returned[k] => j = k

----------------------------------------------------------------------------
(* C28: delete report and resolve report succeed on an existing report in any
   status: resolving a cancelled report makes it resolved, deleting a resolved
   report makes it cancelled while its resolved_at stays set; neither is
   rejected or skipped because of the current status *)
C28_NoTerminalStatus ==
    /\ [][\A r \in ReportIds :
              (last'.op = "delete_report" /\ last'.id = r /\ last' # last)
                  => /\ last'.code = 200
                     /\ reports'[r] = [reports[r] EXCEPT !.status = "cancelled"]]_vars
    /\ [][\A r \in ReportIds :
              (last'.op = "resolve_report" /\ last'.id = r /\ last' # last)
                  => /\ last'.code = 200
                     /\ reports'[r] = [reports[r] EXCEPT !.status = "resolved",
                                                         !.resolved_at = TRUE]]_vars
    /\ [](\A r \in ReportIds :
              /\ last = Response("delete_report", 200, r) => reports[r].status = "cancelled"
              /\ last = Response("resolve_report", 200, r) => reports[r].status = "resolved"
              /\ last.op \in {"delete_report", "resolve_report"} /\ last.id = r
                     => last.code = 200)

\* C28, reached: report 1 was resolved and then deleted, it is cancelled with
\* resolved_at set; report 2 was deleted and then resolved
C28_DeletedAfterResolved ==
    /\ Len(reports) = 2
    /\ reports[1].status = "cancelled"
    /\ reports[1].resolved_at = TRUE
    /\ reports[2].status = "resolved"
    /\ last = Response("resolve_report", 200, 2)

----------------------------------------------------------------------------
(* C29: create care plan is all-or-nothing: when the request completes, either
   the plan row and every item of its checklist are stored and the response is
   a success, or the response is an error and neither the plan nor any item is
   stored *)
C29_AllOrNothing ==
    [][last'.op = "create_care_plan"
           => IF last'.code = 200
              THEN /\ Len(plan_cuidado') = Len(plan_cuidado) + 1
                   /\ checklist_cuidado' =
                          checklist_cuidado \o ChecklistRows(last'.id, last'.body)
              ELSE UNCHANGED <<plan_cuidado, checklist_cuidado>>]_vars

----------------------------------------------------------------------------
(* C30: the backfill script terminates for every finite set of reports: once
   started it eventually fetches an empty batch and exits (or raises before
   its loop), even when a report's first photo fails on every try or is empty *)
C30_BackfillTerminates ==
    (tasks # <<>>) ~> (tasks # <<>> /\ tasks[1].pc \in {"done", "raised"})

====
